---- MODULE Spec2Model ----
(***************************************************************************)
(* Whatnot Claims Bot (src/Bot.py): the claim ledger kept in SQLite, the   *)
(* in-memory confirmation gate, the panic switch, the show (session)       *)
(* lifecycle and the discord.py handlers that mutate them.                 *)
(*                                                                         *)
(* discord.py runs every command and every gateway event as its own        *)
(* asyncio task, so handlers interleave at their `await`s.  A handler is   *)
(* modelled by one action per stretch of code between two awaits that      *)
(* touches the ledger; the task's locals (values read before the await)    *)
(* are kept in its task record.                                            *)
(***************************************************************************)
EXTENDS Integers, Sequences, FiniteSets, Bags, TLC

(***************************************************************************)
(* Bounds of the model.                                                    *)
(***************************************************************************)
NumMembers == 1        \* guild members that may hold picks: 1..NumMembers
NumGuests == 1         \* guest display names
MaxItemNumber == 1     \* item numbers matched by the upload scanner
MaxPicks == 2          \* cap on a ledger total produced by a grant
MaxTasks == 2          \* handlers suspended at an await at the same time
MaxClaimId == 2        \* cap on the AUTOINCREMENT claim id
MaxThread == 1         \* cap on claims threads created by newshow
MaxTime == 60          \* cap on the monotonic clock (seconds)
MaxSwapItems == 2      \* item numbers uploaded where two items of a category are needed
MaxSorts == 2          \* cap on the rebuilds kept in the claims thread
MaxShows == 2          \* cap on claims threads where a show follows a show
MaxSortGuests == 2     \* guest display names where a rebuild has to tell guests apart
MaxFiles == 3          \* files the matcher takes for one name id before it returns their pair
MaxFileNumber == 1000  \* largest item number in the file names the upload scanner reads

(***************************************************************************)
(* Program constants.                                                      *)
(***************************************************************************)
CONFIRM_WINDOW_SECONDS == 60
TickSeconds == 30      \* granularity of the modelled clock

NULL == 0              \* SQL NULL user_id / absent thread id / unlisted item

Members == 1..NumMembers
Staff == {101}         \* callers holding a role of STAFF_ROLE_NAMES
SecondStaff == {102}   \* another one, for the scenarios with two staff actors
NonStaff == {201}      \* callers without one
Callers == Staff \cup NonStaff
GuestNames == {"guest1", "guest2", "guest3"}
Guests == {g \in GuestNames : \E i \in 1..NumGuests : g = <<"guest1", "guest2", "guest3">>[i]}
\* the guests of the scenarios where a rebuild has to tell guests apart
SortGuests ==
    {g \in GuestNames : \E i \in 1..MaxSortGuests : g = <<"guest1", "guest2", "guest3">>[i]}
Categories == {"N", "S"}
BadCategory == "X"         \* a category argument that is neither N nor S
UploadCategories == {"N"}   \* upload threads of category S hold no matched pair
ItemCodes == {<<c, n>> : c \in Categories, n \in 1..MaxItemNumber}
\* Message ids.  Discord ids are unique, so a listing id names one item; the
\* id of the listing of an item is abstracted to a function of the item (a
\* repost gets the same id again), and OtherMessage is a message that is
\* the listing of no item.
ListingId(item_code) == (IF item_code[1] = "N" THEN 10 ELSE 20) + item_code[2]
OtherMessage == 99
MessageIds == {ListingId(c) : c \in ItemCodes} \cup {OtherMessage}
\* item numbers parse_item_number reads off file names, and their items
FileNumbers == {n \in {1, 42, 999, 1000, 1001} : n <= MaxFileNumber}
FileCodes == {<<c, n>> : c \in Categories, n \in FileNumbers}
\* the items of one category a swap can move a claim between
SwapItemCodes == {<<"N", n>> : n \in 1..MaxSwapItems}
GuardedActions == {"panic", "wipe", "newshow", "endshow"}
Confirms == {"", "CONFIRM"}   \* the optional confirm argument, as passed

VARIABLES
    items,          \* items table: item_code -> selection_message_id
    winners,        \* winners table: user_id -> remaining
    guest_winners,  \* guest_winners table: guest_tag -> remaining
    claims,         \* claims table: set of rows
    nextClaimId,    \* sqlite AUTOINCREMENT sequence of claims.id
    settings,       \* settings table: key -> value
    pending,        \* _pending_confirms: <<user_id, action>> -> expires_at
    now,            \* time.monotonic()
    roles,          \* Winner N roles held by each member (discord side)
    nextThread,     \* next thread id discord hands out
    thread_posts,   \* the bot's messages of the rebuilt claim log in the active
                    \* claims thread (the claim posts of the claim handlers are
                    \* best effort and are not kept)
    tasks,          \* bag of handlers suspended at an await
    last,           \* what the last handler step did (observation only)
    _buffer,        \* CardMatcher._buffer of the file watcher: name_id -> partial pair
    returned,       \* what the last add_file returned: <<>> for None, <<pair>>
    added           \* name_id -> the files add_file took since it last returned
                    \* a pair of that name id, in order (observation only)

vars == <<items, winners, guest_winners, claims, nextClaimId, settings,
          pending, now, roles, nextThread, thread_posts, tasks, last,
          _buffer, returned, added>>

\* the state of the file watcher (filewatcher/watcher.py), a process of its own
filewatcher == <<_buffer, returned, added>>

ledger == <<items, winners, guest_winners, claims, nextClaimId>>
discord == <<roles, nextThread, thread_posts>>

(***************************************************************************)
(* Helpers of Bot.py.                                                      *)
(***************************************************************************)
\* every caller passing for staff
is_staffAnyone(caller) == TRUE

\* any(r.name in STAFF_ROLE_NAMES for r in member.roles)
is_staff(caller) == caller \in Staff \cup SecondStaff

\* get_setting(key) is None
no_setting(key) == key \notin DOMAIN settings

\* int(v) if v and v.isdigit() else 0; the value stored is str(thread.id)
get_active_thread_id ==
    IF no_setting("active_claims_thread_id") THEN 0
    ELSE settings["active_claims_thread_id"]

is_panic_mode == ~no_setting("panic_mode") /\ settings["panic_mode"] = "1"

\* get_panic_meta()[0]
panic_enabled == ~no_setting("panic_mode") /\ settings["panic_mode"] = "1"

\* INSERT ... ON CONFLICT(key) DO UPDATE, on a table held as a function
Upsert(f, k, v) == [x \in DOMAIN f \cup {k} |-> IF x = k THEN v ELSE f[x]]

Remove(f, k) == [x \in DOMAIN f \ {k} |-> f[x]]

Empty == [x \in {} |-> 0]

set_setting(s, key, value) == Upsert(s, key, value)

clear_setting(s, key) == Remove(s, key)

\* set_panic_meta writing over a cleared settings table
set_panic_metaReset(s, enabled, actor) ==
    set_setting(set_setting(set_setting(Empty, "panic_mode", IF enabled THEN "1" ELSE "0"),
                            "panic_actor", actor),
                "panic_at", now)

set_panic_meta(s, enabled, actor) ==
    set_setting(set_setting(set_setting(s, "panic_mode", IF enabled THEN "1" ELSE "0"),
                            "panic_actor", actor),
                "panic_at", now)

\* get_winner_state(user_id) is not None / its remaining
has_winner(user_id) == user_id \in DOMAIN winners

\* the remaining of get_winner_state(user_id), 0 without a row
Remaining(m) == IF has_winner(m) THEN winners[m] ELSE 0

\* get_guest_winner(guest_tag) is not None / its remaining
has_guest(guest_tag) == guest_tag \in DOMAIN guest_winners

upsert_guest_winner(guest_tag, remaining) == Upsert(guest_winners, guest_tag, remaining)

\* get_item(item_code) is not None
has_item(item_code) == item_code \in DOMAIN items

get_item_by_selection_message(message_id) ==
    {c \in DOMAIN items : items[c] = message_id}

\* UPDATE items SET selection_message_id=? WHERE item_code=?
update_item_selection_message_id(it, item_code, message_id) ==
    IF item_code \in DOMAIN it THEN [it EXCEPT ![item_code] = message_id] ELSE it

\* the lookup finding no claim row
is_item_claimedNever(item_code, thread_id) == FALSE

is_item_claimed(item_code, thread_id) ==
    \E c \in claims : c.item_code = item_code /\ c.thread_id = thread_id

\* str(number) for number >= 0, as the sequence of its characters
RECURSIVE str(_)
str(number) ==
    LET digit == <<"0", "1", "2", "3", "4", "5", "6", "7", "8", "9">>[(number % 10) + 1]
    IN  IF number < 10 THEN <<digit>> ELSE str(number \div 10) \o <<digit>>

\* str.zfill(width)
RECURSIVE zfill(_, _)
zfill(s, width) == IF Len(s) >= width THEN s ELSE zfill(<<"0">> \o s, width)

\* str.upper(), on the characters item codes are written with
upper(s) ==
    [i \in DOMAIN s |-> CASE s[i] = "n" -> "N" [] s[i] = "s" -> "S" [] OTHER -> s[i]]

\* f"{category.upper()}{str(number).zfill(3)}"
make_item_code(category, number) == upper(<<category>>) \o zfill(str(number), 3)

\* s.strip().upper() if it is a category letter and three digits, else None (<<>>)
parse_item_code(s) ==
    LET t == upper(s)
    IN  IF /\ Len(t) = 4
           /\ t[1] \in {"N", "S"}
           /\ \A i \in 2..4 : t[i] \in {"0", "1", "2", "3", "4", "5", "6", "7", "8", "9"}
        THEN t ELSE <<>>

\* an item <<category, number>> of the model as the bot stores it and as
\* staff type it: the text make_item_code gave it
CodeText(item_code) == make_item_code(item_code[1], item_code[2])

\* an argument that is no item code
BadItemCode == <<"X", 1>>

\* str(member) of a guild member
MemberTag(m) == <<"user", m>>

ClaimRow(id, thread_id, user_id, user_tag, item_code) ==
    [id |-> id, thread_id |-> thread_id, user_id |-> user_id,
     user_tag |-> user_tag, item_code |-> item_code]

\* the id of a plain rowid table: one more than the largest id in the table
add_claimRowid(cl, thread_id, user_id, user_tag, item_code) ==
    LET ids == {c.id : c \in cl}
        top == IF ids = {} THEN 0 ELSE CHOOSE i \in ids : \A j \in ids : j <= i
    IN  cl \cup {ClaimRow(top + 1, thread_id, user_id, user_tag, item_code)}

\* INSERT INTO claims(...): id is INTEGER PRIMARY KEY AUTOINCREMENT
add_claim(cl, thread_id, user_id, user_tag, item_code) ==
    cl \cup {ClaimRow(nextClaimId, thread_id, user_id, user_tag, item_code)}

\* ... WHERE thread_id=? AND item_code=? ORDER BY id DESC LIMIT 1 (a set
\* with the row, empty when fetchone() returns None)
get_claim_for_item(thread_id, item_code) ==
    LET m == {c \in claims : c.thread_id = thread_id /\ c.item_code = item_code}
    IN  {c \in m : \A d \in m : d.id <= c.id}

delete_claim_by_id(cl, claim_id) == {c \in cl : c.id # claim_id}

list_unclaimed_items(thread_id, category) ==
    {c \in DOMAIN items : c[1] = category /\ ~is_item_claimed(c, thread_id)}

\* _needs_confirm: TRUE when the caller has to confirm first
ConfirmValid(user_id, action) ==
    (IF <<user_id, action>> \in DOMAIN pending THEN pending[<<user_id, action>>] ELSE 0) > now

_needs_confirm(user_id, action) == ~ConfirmValid(user_id, action)

PendingAfterConfirm(user_id, action) ==
    IF ConfirmValid(user_id, action)
    THEN Remove(pending, <<user_id, action>>)
    ELSE Upsert(pending, <<user_id, action>>, now + CONFIRM_WINDOW_SECONDS)

\* `if (confirm or "").upper() != "CONFIRM": if _needs_confirm(...): return`
GateReturns(user_id, action, confirm) ==
    confirm # "CONFIRM" /\ _needs_confirm(user_id, action)

GatePending(user_id, action, confirm) ==
    IF confirm # "CONFIRM" THEN PendingAfterConfirm(user_id, action) ELSE pending

(***************************************************************************)
(* Tasks.                                                                  *)
(***************************************************************************)
Task(op, pc, user, tag, item, item2, tid, n, cid, role) ==
    [op |-> op, pc |-> pc, user |-> user, tag |-> tag, item |-> item,
     item2 |-> item2, tid |-> tid, n |-> n, cid |-> cid, role |-> role]

NoItem == <<"-", 0>>

Spawn(t) == tasks (+) SetToBag({t})
Retire(t) == tasks (-) SetToBag({t})
Replace(t, u) == (tasks (-) SetToBag({t})) (+) SetToBag({u})
Running == BagToSet(tasks)
CanSpawn == BagCardinality(tasks) < MaxTasks

Obs(op, what) == [op |-> op, what |-> what]

\* last observes the outcome of the show-control commands and of export only
Observed == {"panic", "unpanic", "wipe", "newshow", "endshow", "export"}

\* no handler of Bot.py touches the matcher of the file watcher
Note(op, what) ==
    /\ last' = IF op \in Observed THEN Obs(op, what) ELSE last
    /\ UNCHANGED filewatcher

Init ==
    /\ items = Empty
    /\ winners = Empty
    /\ guest_winners = Empty
    /\ claims = {}
    /\ nextClaimId = 1
    /\ settings = Empty
    /\ pending = Empty
    /\ now = 0
    /\ roles = [m \in Members |-> {}]
    /\ nextThread = 1
    /\ thread_posts = <<>>
    /\ tasks = EmptyBag
    /\ last = Obs("init", "none")
    /\ _buffer = Empty
    /\ returned = <<>>
    /\ added = Empty

\* `return await ctx.send("...")` before anything was written
Rejected(op) ==
    /\ Note(op, "rejected")
    /\ UNCHANGED <<ledger, settings, pending, now, discord, tasks>>

(***************************************************************************)
(* Commands that run to their last ledger write without an await.          *)
(***************************************************************************)
\* upload_cmd / do_upload_category: one iteration of the posting loop
upload_cmd(caller, item_code) ==
    IF ~is_staff(caller) THEN Rejected("upload")
    ELSE /\ items' = Upsert(items, item_code, ListingId(item_code))
         /\ Note("upload", "done")
         /\ UNCHANGED <<winners, guest_winners, claims, nextClaimId, settings,
                        pending, now, roles, nextThread, thread_posts, tasks>>

guestwinner_cmd(caller, guest_tag, amount) ==
    IF ~is_staff(caller) \/ amount <= 0 THEN Rejected("guestwinner")
    ELSE LET total == IF has_guest(guest_tag)
                      THEN guest_winners[guest_tag] + amount ELSE amount
         IN  /\ total <= MaxPicks
             /\ guest_winners' = upsert_guest_winner(guest_tag, total)
             /\ Note("guestwinner", "done")
             /\ UNCHANGED <<items, winners, claims, nextClaimId, settings,
                            pending, now, discord, tasks>>

panic_cmd(caller, confirm) ==
    IF ~is_staff(caller) THEN Rejected("panic")
    ELSE IF GateReturns(caller, "panic", confirm)
    THEN /\ pending' = GatePending(caller, "panic", confirm)
         /\ Note("panic", "needs_confirm")
         /\ UNCHANGED <<ledger, settings, now, discord, tasks>>
    ELSE /\ pending' = GatePending(caller, "panic", confirm)
         /\ settings' = set_panic_meta(settings, TRUE, caller)
         /\ Note("panic", "done")
         /\ UNCHANGED <<ledger, now, discord, tasks>>

unpanic_cmd(caller) ==
    IF ~is_staff(caller) THEN Rejected("unpanic")
    ELSE /\ settings' = set_panic_meta(settings, FALSE, caller)
         /\ Note("unpanic", "done")
         /\ UNCHANGED <<ledger, pending, now, discord, tasks>>

\* wipe_cmd without its active-show check
wipe_cmdAnytime(caller, confirm) ==
    IF ~is_staff(caller) THEN Rejected("wipe")
    ELSE IF GateReturns(caller, "wipe", confirm)
    THEN /\ pending' = GatePending(caller, "wipe", confirm)
         /\ Note("wipe", "needs_confirm")
         /\ UNCHANGED <<ledger, settings, now, discord, tasks>>
    ELSE /\ pending' = GatePending(caller, "wipe", confirm)
         /\ items' = Empty
         /\ winners' = Empty
         /\ guest_winners' = Empty
         /\ claims' = {}
         /\ settings' = Empty
         /\ Note("wipe", "done")
         /\ UNCHANGED <<nextClaimId, now, discord, tasks>>

wipe_cmd(caller, confirm) ==
    IF ~is_staff(caller) \/ get_active_thread_id # 0 THEN Rejected("wipe")
    ELSE IF GateReturns(caller, "wipe", confirm)
    THEN /\ pending' = GatePending(caller, "wipe", confirm)
         /\ Note("wipe", "needs_confirm")
         /\ UNCHANGED <<ledger, settings, now, discord, tasks>>
    ELSE /\ pending' = GatePending(caller, "wipe", confirm)
         /\ items' = Empty
         /\ winners' = Empty
         /\ guest_winners' = Empty
         /\ claims' = {}
         /\ settings' = Empty
         /\ Note("wipe", "done")
         /\ UNCHANGED <<nextClaimId, now, discord, tasks>>

\* export_cmd: the CSV of the claims of the active show, or of all claims
export_cmd(caller, mode) ==
    IF ~is_staff(caller) THEN Rejected("export")
    ELSE IF mode # "all" /\ get_active_thread_id = 0 THEN Rejected("export")
    ELSE /\ Note("export", IF mode = "all" THEN "all" ELSE "thread")
         /\ UNCHANGED <<ledger, settings, pending, now, discord, tasks>>

\* time.monotonic() advances
Tick ==
    /\ now + TickSeconds <= MaxTime
    /\ now' = now + TickSeconds
    /\ UNCHANGED <<ledger, settings, pending, discord, tasks, last, filewatcher>>

\* id of the help embed on_ready posts when it cannot fetch the stored one
HelpMessageId == 98

\* The process ends and Bot.py is run again: the module body rebinds
\* _pending_confirms to {}, db_connect() reopens the database file (the
\* schema is CREATE TABLE IF NOT EXISTS), the tasks of the old event loop
\* are gone, and on_ready runs ensure_help_message, which stores the id of a
\* newly sent help embed (help_sent) or edits the stored one.
process_start(help_sent) ==
    /\ pending' = Empty
    /\ tasks' = EmptyBag
    /\ settings' = IF help_sent
                   THEN set_setting(settings, "help_message_id", HelpMessageId)
                   ELSE settings
    /\ last' = Obs("restart", "done")
    /\ UNCHANGED <<ledger, now, discord, filewatcher>>

(***************************************************************************)
(* set_member_winner_remaining: remove the current Winner role (await),    *)
(* add the role of the new count (await), then write the winners row.      *)
(* The task carries the count to write in n and the role to remove in      *)
(* role.                                                                   *)
(***************************************************************************)
Resched(old, new) == tasks' = (tasks (-) SetToBag(old)) (+) SetToBag(new)

\* where a handler goes on after the winners row was written
AfterWrite(t) ==
    IF t.op = "reaction" THEN {[t EXCEPT !.pc = "react_post"]}
    ELSE IF t.op = "unassign" /\ has_item(t.item) THEN {[t EXCEPT !.pc = "repost_send"]}
    ELSE {}

\* the code of set_member_winner_remaining up to its first await
set_member_winner_remaining(old, t, remaining) ==
    /\ roles' = roles
    /\ IF roles[t.user] # {}
       THEN /\ \E r \in roles[t.user] :
                 Resched(old, {[t EXCEPT !.pc = "smwr_remove", !.role = r, !.n = remaining]})
            /\ winners' = winners
       ELSE IF remaining > 0
       THEN /\ Resched(old, {[t EXCEPT !.pc = "smwr_add", !.n = remaining]})
            /\ winners' = winners
       ELSE /\ winners' = Upsert(winners, t.user, remaining)
            /\ Resched(old, AfterWrite(t))

\* `await member.remove_roles(old_role)` returns; discord.Forbidden is swallowed
smwr_remove_done(t, ok) ==
    /\ t.pc = "smwr_remove"
    /\ roles' = IF ok THEN [roles EXCEPT ![t.user] = @ \ {t.role}] ELSE roles
    /\ IF t.n > 0
       THEN /\ Resched({t}, {[t EXCEPT !.pc = "smwr_add"]})
            /\ winners' = winners
       ELSE /\ winners' = Upsert(winners, t.user, t.n)
            /\ Resched({t}, AfterWrite(t))
    /\ Note(t.op, IF t.n > 0 THEN "role_removed" ELSE "written")
    /\ UNCHANGED <<items, guest_winners, claims, nextClaimId, settings, pending, now,
                   nextThread, thread_posts>>

\* `await member.add_roles(role)` returns or raises; on return the row is written
smwr_add_done(t, ok) ==
    /\ t.pc = "smwr_add"
    /\ IF ok
       THEN /\ roles' = [roles EXCEPT ![t.user] = @ \cup {t.n}]
            /\ winners' = Upsert(winners, t.user, t.n)
            /\ Resched({t}, AfterWrite(t))
            /\ Note(t.op, "written")
       ELSE /\ Resched({t}, {})
            /\ Note(t.op, "failed")
            /\ UNCHANGED <<roles, winners>>
    /\ UNCHANGED <<items, guest_winners, claims, nextClaimId, settings, pending, now,
                   nextThread, thread_posts>>

(***************************************************************************)
(* on_raw_reaction_add                                                     *)
(***************************************************************************)
\* the reaction handler writing back the remaining it read
ReactionCommitKeep(old, t) ==
    /\ nextClaimId <= MaxClaimId
    /\ claims' = add_claim(claims, t.tid, t.user, MemberTag(t.user), t.item)
    /\ nextClaimId' = nextClaimId + 1
    /\ set_member_winner_remaining(old, t, t.n)
    /\ Note("reaction", "claimed")
    /\ UNCHANGED <<items, guest_winners, settings, pending, now, nextThread, thread_posts>>

\* add_claim and the pick decrement of the reaction handler
ReactionCommit(old, t) ==
    /\ nextClaimId <= MaxClaimId
    /\ claims' = add_claim(claims, t.tid, t.user, MemberTag(t.user), t.item)
    /\ nextClaimId' = nextClaimId + 1
    /\ set_member_winner_remaining(old, t, t.n - 1)
    /\ Note("reaction", "claimed")
    /\ UNCHANGED <<items, guest_winners, settings, pending, now, nextThread, thread_posts>>

\* the checks with the listing lookup ahead of the panic check
reaction_checksItemFirst(user_id, message_id, emoji_ok) ==
    LET tid == get_active_thread_id
        item == get_item_by_selection_message(message_id)
    IN  IF tid = 0 THEN "ignored"
        ELSE IF ~emoji_ok THEN "ignored"
        ELSE IF item = {} THEN "ignored"
        ELSE IF panic_enabled THEN "removed"
        ELSE IF ~has_winner(user_id) THEN "no_tag"
        ELSE IF winners[user_id] <= 0 THEN "no_picks"
        ELSE IF \E c \in item : is_item_claimed(c, tid) THEN "claimed"
        ELSE "accept"

\* the checks of the handler, in its order, and what it does when one fails:
\* "ignored" is a bare return, "removed" takes the reaction off, "no_tag",
\* "no_picks" and "claimed" take it off and send that DM
reaction_checks(user_id, message_id, emoji_ok) ==
    LET tid == get_active_thread_id
        item == get_item_by_selection_message(message_id)
    IN  IF tid = 0 THEN "ignored"
        ELSE IF ~emoji_ok THEN "ignored"
        ELSE IF panic_enabled THEN "removed"
        ELSE IF item = {} THEN "ignored"
        ELSE IF ~has_winner(user_id) THEN "no_tag"
        ELSE IF winners[user_id] <= 0 THEN "no_picks"
        ELSE IF \E c \in item : is_item_claimed(c, tid) THEN "claimed"
        ELSE "accept"

on_raw_reaction_add(user_id, message_id, emoji_ok, member_cached) ==
    LET tid == get_active_thread_id
        item == get_item_by_selection_message(message_id)
    IN  IF reaction_checks(user_id, message_id, emoji_ok) # "accept"
        THEN Rejected("reaction")
        ELSE LET t == Task("reaction", "fetch_member", user_id, "", CHOOSE c \in item : TRUE,
                           NoItem, tid, winners[user_id], 0, 0)
             IN  /\ CanSpawn
                 /\ IF member_cached
                    THEN ReactionCommit({}, t)
                    ELSE /\ Resched({}, {t})
                         /\ Note("reaction", "suspended")
                         /\ UNCHANGED <<ledger, settings, pending, now, discord>>

\* `await guild.fetch_member(...)` returns or raises
react_fetch_member_done(t, ok) ==
    /\ t.op = "reaction" /\ t.pc = "fetch_member"
    /\ IF ok THEN ReactionCommit({t}, t)
       ELSE /\ Resched({t}, {})
            /\ Note("reaction", "failed")
            /\ UNCHANGED <<ledger, settings, pending, now, discord>>

\* thread post and listing delete done: update_item_selection_message_id(code, 0)
react_post_done(t) ==
    /\ t.op = "reaction" /\ t.pc = "react_post"
    /\ items' = update_item_selection_message_id(items, t.item, 0)
    /\ Resched({t}, {})
    /\ Note("reaction", "unlisted")
    /\ UNCHANGED <<winners, guest_winners, claims, nextClaimId, settings, pending, now,
                   discord>>

(***************************************************************************)
(* winner_cmd                                                              *)
(***************************************************************************)
winner_cmd(caller, member, amount) ==
    IF ~is_staff(caller) \/ amount <= 0 THEN Rejected("winner")
    ELSE LET total == IF has_winner(member) THEN winners[member] + amount ELSE amount
             t == Task("winner", "start", member, "", NoItem, NoItem, 0, total, 0, 0)
         IN  /\ CanSpawn
             /\ total <= MaxPicks
             /\ set_member_winner_remaining({}, t, total)
             /\ Note("winner", "suspended")
             /\ UNCHANGED <<items, guest_winners, claims, nextClaimId, settings, pending,
                            now, nextThread, thread_posts>>

(***************************************************************************)
(* newshow_cmd / endshow_cmd                                               *)
(***************************************************************************)
\* the wipe of newshow without DELETE FROM claims
newshow_cmdKeepClaims(caller, confirm) ==
    IF ~is_staff(caller) THEN Rejected("newshow")
    ELSE IF GateReturns(caller, "newshow", confirm)
    THEN /\ pending' = GatePending(caller, "newshow", confirm)
         /\ Note("newshow", "needs_confirm")
         /\ UNCHANGED <<ledger, settings, now, discord, tasks>>
    ELSE /\ CanSpawn
         /\ pending' = GatePending(caller, "newshow", confirm)
         /\ items' = Empty
         /\ winners' = Empty
         /\ guest_winners' = Empty
         /\ claims' = claims
         /\ settings' = Empty
         /\ Resched({}, {Task("newshow", "create_thread", caller, "", NoItem, NoItem, 0, 0, 0, 0)})
         /\ Note("newshow", "wiped")
         /\ UNCHANGED <<nextClaimId, now, discord>>

newshow_cmd(caller, confirm) ==
    IF ~is_staff(caller) THEN Rejected("newshow")
    ELSE IF GateReturns(caller, "newshow", confirm)
    THEN /\ pending' = GatePending(caller, "newshow", confirm)
         /\ Note("newshow", "needs_confirm")
         /\ UNCHANGED <<ledger, settings, now, discord, tasks>>
    ELSE /\ CanSpawn
         /\ pending' = GatePending(caller, "newshow", confirm)
         /\ items' = Empty
         /\ winners' = Empty
         /\ guest_winners' = Empty
         /\ claims' = {}
         /\ settings' = Empty
         /\ Resched({}, {Task("newshow", "create_thread", caller, "", NoItem, NoItem, 0, 0, 0, 0)})
         /\ Note("newshow", "wiped")
         /\ UNCHANGED <<nextClaimId, now, discord>>

\* starter message and thread created: set_setting("active_claims_thread_id", ...)
newshow_thread_createdUpTo(t, cap) ==
    /\ t.op = "newshow" /\ t.pc = "create_thread"
    /\ nextThread <= cap
    /\ settings' = set_setting(settings, "active_claims_thread_id", nextThread)
    /\ nextThread' = nextThread + 1
    /\ thread_posts' = <<>>
    /\ Resched({t}, {})
    /\ Note("newshow", "done")
    /\ UNCHANGED <<ledger, pending, now, roles>>

newshow_thread_created(t) == newshow_thread_createdUpTo(t, MaxThread)

endshow_cmd(caller, confirm) ==
    IF ~is_staff(caller) THEN Rejected("endshow")
    ELSE IF GateReturns(caller, "endshow", confirm)
    THEN /\ pending' = GatePending(caller, "endshow", confirm)
         /\ Note("endshow", "needs_confirm")
         /\ UNCHANGED <<ledger, settings, now, discord, tasks>>
    ELSE /\ CanSpawn
         /\ pending' = GatePending(caller, "endshow", confirm)
         /\ Resched({}, {Task("endshow", "lock", caller, "", NoItem, NoItem, 0, 0, 0, 0)})
         /\ Note("endshow", "suspended")
         /\ UNCHANGED <<ledger, settings, now, discord>>

\* channels locked, thread archived: clear_setting("active_claims_thread_id")
endshow_locked(t) ==
    /\ t.op = "endshow" /\ t.pc = "lock"
    /\ settings' = clear_setting(settings, "active_claims_thread_id")
    /\ Resched({t}, {})
    /\ Note("endshow", "done")
    /\ UNCHANGED <<ledger, pending, now, discord>>

(***************************************************************************)
(* sort_cmd.  thread_posts holds the messages of the claims thread created *)
(* last (thread nextThread - 1).                                           *)
(***************************************************************************)
Msg(kind, who, item, n, rem) ==
    [kind |-> kind, who |-> who, item |-> item, n |-> n, rem |-> rem]

\* no post starts with the marker
is_bot_claim_messageNever(msg) == FALSE

\* msg.author.bot and msg.content.startswith("✅ **Card Claimed")
is_bot_claim_message(msg) == msg.kind = "claim"

GuestRank(guest_tag) == CHOOSE i \in 1..3 : <<"guest1", "guest2", "guest3">>[i] = guest_tag

\* place of the user_tag of a claim row in the NOCASE collation; guests
\* carry user_id NULL and a display name
TagRank(c) == IF c.user_id # NULL THEN c.user_id ELSE 100 + GuestRank(c.user_tag)

\* ORDER BY user_tag COLLATE NOCASE, item_number ASC (rowid among equals)
RowBefore(a, b) ==
    \/ TagRank(a) < TagRank(b)
    \/ TagRank(a) = TagRank(b) /\ a.item_code[2] < b.item_code[2]
    \/ TagRank(a) = TagRank(b) /\ a.item_code[2] = b.item_code[2] /\ a.id <= b.id

RECURSIVE OrderRows(_)
OrderRows(S) ==
    IF S = {} THEN <<>>
    ELSE LET r == CHOOSE r \in S : \A o \in S : RowBefore(r, o)
         IN  <<r>> \o OrderRows({o \in S : o.id # r.id})

get_claims_for_thread(cl, thread_id) == OrderRows({c \in cl : c.thread_id = thread_id})

\* the grouping with its statements inside the loop: one group per
\* COALESCE(user_id, 0), every guest row under uid 0
groupedByUid(rows) ==
    [uid \in {rows[i].user_id : i \in DOMAIN rows} |->
        SelectSeq(rows, LAMBDA r : r.user_id = uid)]

\* `for row in claims:` only unpacks the row; the statements that fill
\* user_name_map and grouped run once, after the loop, on its last row
grouped(rows) ==
    LET row == rows[Len(rows)]
    IN  [uid \in {row.user_id} |-> <<row>>]

\* the header of one group: display name, len(rows), remaining picks
sort_header(uid, rows, w) ==
    Msg("header", TagRank(rows[Len(rows)]), NoItem, Len(rows),
        IF uid # NULL /\ uid \in DOMAIN w THEN w[uid] ELSE 0)

\* the body of `for r in rows`: thread.send(text), then the second try
\* sends text again with a RAW link line appended
RECURSIVE sort_rows(_)
sort_rows(rows) ==
    IF rows = <<>> THEN <<>>
    ELSE <<Msg("claim", TagRank(Head(rows)), Head(rows).item_code, 1, 0),
           Msg("claim", TagRank(Head(rows)), Head(rows).item_code, 2, 0)>>
         \o sort_rows(Tail(rows))

RECURSIVE sort_groups(_, _)
sort_groups(g, w) ==
    IF DOMAIN g = {} THEN <<>>
    ELSE LET uid == CHOOSE u \in DOMAIN g : \A v \in DOMAIN g : u <= v
         IN  <<sort_header(uid, g[uid], w)>> \o sort_rows(g[uid])
             \o sort_groups([v \in DOMAIN g \ {uid} |-> g[v]], w)

\* ... WHERE remaining > 0 ORDER BY remaining DESC, one line per row
RECURSIVE PicksLines(_, _, _)
PicksLines(kind, f, rank) ==
    LET live == {k \in DOMAIN f : f[k] > 0}
    IN  IF live = {} THEN <<>>
        ELSE LET k == CHOOSE k \in live :
                          \A o \in live : f[k] > f[o] \/ (f[k] = f[o] /\ rank[k] <= rank[o])
             IN  <<Msg(kind, rank[k], NoItem, 0, f[k])>>
                 \o PicksLines(kind, [o \in DOMAIN f \ {k} |-> f[o]], rank)

sort_picks(w, gw) ==
    (IF \E m \in DOMAIN w : w[m] > 0
     THEN <<Msg("picks_banner", 0, NoItem, 0, 0)>>
          \o PicksLines("picks", w, [m \in DOMAIN w |-> m])
     ELSE <<>>)
    \o
    (IF \E g \in DOMAIN gw : gw[g] > 0
     THEN <<Msg("guest_picks_banner", 0, NoItem, 0, 0)>>
          \o PicksLines("guest_picks", gw, [g \in DOMAIN gw |-> GuestRank(g)])
     ELSE <<>>)

\* the delete phase: every post of the thread that is_bot_claim_message
sort_delete(posts) == SelectSeq(posts, LAMBDA msg : ~is_bot_claim_message(msg))

\* banner, then header and announcements of every group
sort_rebuild(rows, w) ==
    <<Msg("banner", 0, NoItem, 0, 0)>> \o sort_groups(grouped(rows), w)

\* the thread a whole run of sort_cmd leaves, nothing else running
SortedThread(posts, cl, w, gw, thread_id) ==
    LET rows == get_claims_for_thread(cl, thread_id)
    IN  IF rows = <<>> THEN sort_delete(posts)
        ELSE sort_delete(posts) \o sort_rebuild(rows, w) \o sort_picks(w, gw)

\* sort_cmd up to the history scan of the delete phase
sort_cmd(caller) ==
    IF ~is_staff(caller) \/ get_active_thread_id = 0 THEN Rejected("sort")
    ELSE /\ CanSpawn
         /\ Resched({}, {Task("sort", "delete", caller, "", NoItem, NoItem,
                              get_active_thread_id, 0, 0, 0)})
         /\ Note("sort", "suspended")
         /\ UNCHANGED <<ledger, settings, pending, now, discord>>

\* claim posts deleted; get_claims_for_thread, the banner, and the header
\* and announcements of each group (the header reads get_winner_state after
\* the banner went out; the sends are taken as one step)
sort_deleted(t) ==
    /\ t.op = "sort" /\ t.pc = "delete"
    /\ LET rows == get_claims_for_thread(claims, t.tid)
           mine == t.tid = nextThread - 1
       IN  IF rows = <<>>
           THEN /\ thread_posts' = IF mine THEN sort_delete(thread_posts) ELSE thread_posts
                /\ Resched({t}, {})
           ELSE /\ thread_posts' = IF mine
                                   THEN sort_delete(thread_posts) \o sort_rebuild(rows, winners)
                                   ELSE thread_posts
                /\ Resched({t}, {[t EXCEPT !.pc = "lists"]})
    /\ Note("sort", "rebuilt")
    /\ UNCHANGED <<ledger, settings, pending, now, roles, nextThread>>

\* the two lists of picks remaining, then the `Sorted` answer
sort_rebuilt(t) ==
    /\ t.op = "sort" /\ t.pc = "lists"
    /\ thread_posts' = IF t.tid = nextThread - 1
                       THEN thread_posts \o sort_picks(winners, guest_winners)
                       ELSE thread_posts
    /\ Resched({t}, {})
    /\ Note("sort", "done")
    /\ UNCHANGED <<ledger, settings, pending, now, roles, nextThread>>

(***************************************************************************)
(* assign_cmd                                                              *)
(***************************************************************************)
\* the decrement without its DELETE ... WHERE remaining <= 0
DecrementRowKeep(w, user_id) ==
    IF user_id \notin DOMAIN w THEN w ELSE [w EXCEPT ![user_id] = @ - 1]

\* UPDATE winners SET remaining = remaining - 1; DELETE ... WHERE remaining <= 0
DecrementRow(w, user_id) ==
    IF user_id \notin DOMAIN w THEN w
    ELSE IF w[user_id] - 1 <= 0 THEN Remove(w, user_id)
    ELSE [w EXCEPT ![user_id] = @ - 1]

\* add_claim, the SQL decrement and the start of the role sync of assign_cmd
AssignCommit(old, t) ==
    LET w == DecrementRow(winners, t.user)
        row2 == IF t.user \in DOMAIN w THEN w[t.user] ELSE 0
    IN  /\ nextClaimId <= MaxClaimId
        /\ claims' = add_claim(claims, t.tid, t.user, MemberTag(t.user), t.item)
        /\ nextClaimId' = nextClaimId + 1
        /\ winners' = w
        /\ IF roles[t.user] # {}
           THEN \E r \in roles[t.user] :
                    Resched(old, {[t EXCEPT !.pc = "assign_remove", !.role = r, !.n = row2]})
           ELSE IF row2 > 0
           THEN Resched(old, {[t EXCEPT !.pc = "assign_add", !.n = row2]})
           ELSE Resched(old, {})
        /\ Note("assign", "claimed")
        /\ UNCHANGED <<items, guest_winners, settings, pending, now, discord>>

assign_cmd(caller, member, item_code) ==
    LET tid == get_active_thread_id
    IN  IF \/ ~is_staff(caller)
           \/ tid = 0
           \/ ~has_winner(member)
           \/ winners[member] <= 0
           \/ ~has_item(item_code)
           \/ is_item_claimed(item_code, tid)
        THEN Rejected("assign")
        ELSE LET t == Task("assign", "assign_delete", member, "", item_code, NoItem,
                           tid, 0, 0, 0)
             IN  /\ CanSpawn
                 /\ IF items[item_code] # 0
                    THEN /\ Resched({}, {t})
                         /\ Note("assign", "suspended")
                         /\ UNCHANGED <<ledger, settings, pending, now, discord>>
                    ELSE AssignCommit({}, t)

\* the listing was fetched and deleted (or was gone)
assign_listing_deleted(t) ==
    /\ t.op = "assign" /\ t.pc = "assign_delete"
    /\ AssignCommit({t}, t)

\* `await member.remove_roles(old_role)` of assign_cmd; Forbidden is swallowed
assign_remove_done(t, ok) ==
    /\ t.op = "assign" /\ t.pc = "assign_remove"
    /\ roles' = IF ok THEN [roles EXCEPT ![t.user] = @ \ {t.role}] ELSE roles
    /\ IF t.n > 0 THEN Resched({t}, {[t EXCEPT !.pc = "assign_add"]}) ELSE Resched({t}, {})
    /\ Note("assign", "role_removed")
    /\ UNCHANGED <<ledger, settings, pending, now, nextThread, thread_posts>>

\* `await member.add_roles(new_role)` of assign_cmd; Forbidden is swallowed
assign_add_done(t, ok) ==
    /\ t.op = "assign" /\ t.pc = "assign_add"
    /\ roles' = IF ok THEN [roles EXCEPT ![t.user] = @ \cup {t.n}] ELSE roles
    /\ Resched({t}, {})
    /\ Note("assign", "role_added")
    /\ UNCHANGED <<ledger, settings, pending, now, nextThread, thread_posts>>

(***************************************************************************)
(* force_claim_discord (random, swap) and force_claim_guest (guestclaim,   *)
(* randomguest).  cl and it are the claims and items tables as the caller  *)
(* left them in the same stretch of code.                                  *)
(***************************************************************************)
Max(a, b) == IF a >= b THEN a ELSE b

\* from update_item_selection_message_id(code, 0) to the pick decrement
ForceCommit(old, t, listed, cl, it) ==
    /\ nextClaimId <= MaxClaimId
    /\ items' = IF listed THEN update_item_selection_message_id(it, t.item, 0) ELSE it
    /\ claims' = add_claim(cl, t.tid, t.user, MemberTag(t.user), t.item)
    /\ nextClaimId' = nextClaimId + 1
    /\ IF t.op = "random" /\ has_winner(t.user)
       THEN set_member_winner_remaining(old, t, Max(0, winners[t.user] - 1))
       ELSE /\ Resched(old, {})
            /\ UNCHANGED <<winners, roles>>
    /\ Note(t.op, "claimed")
    /\ UNCHANGED <<guest_winners, settings, pending, now, nextThread, thread_posts>>

\* force_claim_discord up to its first await
force_claim_discord(old, t, cl, it) ==
    LET tid == get_active_thread_id
    IN  IF tid = 0 \/ t.item \notin DOMAIN it
        THEN /\ claims' = cl
             /\ items' = it
             /\ Resched(old, {})
             /\ Note(t.op, "dropped")
             /\ UNCHANGED <<winners, guest_winners, nextClaimId, settings, pending, now,
                            roles, nextThread, thread_posts>>
        ELSE IF it[t.item] # 0
        THEN /\ claims' = cl
             /\ items' = it
             /\ Resched(old, {[t EXCEPT !.pc = "force_delete", !.tid = tid]})
             /\ Note(t.op, "suspended")
             /\ UNCHANGED <<winners, guest_winners, nextClaimId, settings, pending, now,
                            roles, nextThread, thread_posts>>
        ELSE ForceCommit(old, [t EXCEPT !.tid = tid], FALSE, cl, it)

\* the listing was fetched and deleted (or the attempt failed)
force_listing_deleted(t) ==
    /\ t.op \in {"random", "swap"} /\ t.pc = "force_delete"
    /\ ForceCommit({t}, t, TRUE, claims, items)

random_cmd(caller, member, category) ==
    LET tid == get_active_thread_id
    IN  IF \/ ~is_staff(caller)
           \/ category \notin Categories
           \/ tid = 0
           \/ ~has_winner(member)
           \/ winners[member] <= 0
           \/ list_unclaimed_items(tid, category) = {}
        THEN Rejected("random")
        ELSE /\ CanSpawn
             /\ \E pick \in list_unclaimed_items(tid, category) :
                    force_claim_discord({}, Task("random", "start", member, "", pick, NoItem,
                                                 tid, 0, 0, 0), claims, items)

\* swap without the check that the new item is unclaimed
swap_cmdOntoClaimed(caller, member, old_item, new_item) ==
    LET tid == get_active_thread_id
        old_claim == get_claim_for_item(tid, old_item)
    IN  IF \/ ~is_staff(caller)
           \/ tid = 0
           \/ parse_item_code(CodeText(old_item)) = <<>>
           \/ parse_item_code(CodeText(new_item)) = <<>>
           \/ old_item[1] # new_item[1]
           \/ old_claim = {}
           \/ \E c \in old_claim : c.user_id = NULL \/ c.user_id # member
           \/ ~has_item(new_item)
        THEN Rejected("swap")
        ELSE LET cl == delete_claim_by_id(claims, (CHOOSE c \in old_claim : TRUE).id)
                 t == Task("swap", "swap_repost", member, "", new_item, old_item, tid, 0, 0, 0)
             IN  /\ CanSpawn
                 /\ IF has_item(old_item)
                    THEN /\ claims' = cl
                         /\ Resched({}, {t})
                         /\ Note("swap", "suspended")
                         /\ UNCHANGED <<items, winners, guest_winners, nextClaimId, settings,
                                        pending, now, discord>>
                    ELSE force_claim_discord({}, t, cl, items)

swap_cmd(caller, member, old_item, new_item) ==
    LET tid == get_active_thread_id
        old_claim == get_claim_for_item(tid, old_item)
    IN  IF \/ ~is_staff(caller)
           \/ tid = 0
           \/ parse_item_code(CodeText(old_item)) = <<>>
           \/ parse_item_code(CodeText(new_item)) = <<>>
           \/ old_item[1] # new_item[1]
           \/ old_claim = {}
           \/ \E c \in old_claim : c.user_id = NULL \/ c.user_id # member
           \/ is_item_claimed(new_item, tid)
           \/ ~has_item(new_item)
        THEN Rejected("swap")
        ELSE LET cl == delete_claim_by_id(claims, (CHOOSE c \in old_claim : TRUE).id)
                 t == Task("swap", "swap_repost", member, "", new_item, old_item, tid, 0, 0, 0)
             IN  /\ CanSpawn
                 /\ IF has_item(old_item)
                    THEN /\ claims' = cl
                         /\ Resched({}, {t})
                         /\ Note("swap", "suspended")
                         /\ UNCHANGED <<items, winners, guest_winners, nextClaimId, settings,
                                        pending, now, discord>>
                    ELSE force_claim_discord({}, t, cl, items)

\* repost_listing(old) sent the listing: record its id, then force_claim_discord(new)
swap_repost_done(t) ==
    /\ t.op = "swap" /\ t.pc = "swap_repost"
    /\ force_claim_discord({t}, t, claims,
                           update_item_selection_message_id(items, t.item2, ListingId(t.item2)))

ForceGuestCommit(old, t, listed) ==
    /\ nextClaimId <= MaxClaimId
    /\ items' = IF listed THEN update_item_selection_message_id(items, t.item, 0) ELSE items
    /\ claims' = add_claim(claims, t.tid, NULL, t.tag, t.item)
    /\ nextClaimId' = nextClaimId + 1
    /\ guest_winners' = IF has_guest(t.tag)
                        THEN upsert_guest_winner(t.tag, Max(0, guest_winners[t.tag] - 1))
                        ELSE guest_winners
    /\ Resched(old, {})
    /\ Note(t.op, "claimed")
    /\ UNCHANGED <<winners, settings, pending, now, discord>>

\* force_claim_guest up to its first await
force_claim_guest(t) ==
    IF ~has_item(t.item)
    THEN /\ Note(t.op, "dropped")
         /\ UNCHANGED <<ledger, settings, pending, now, discord, tasks>>
    ELSE IF items[t.item] # 0
    THEN /\ Resched({}, {[t EXCEPT !.pc = "force_delete"]})
         /\ Note(t.op, "suspended")
         /\ UNCHANGED <<ledger, settings, pending, now, discord>>
    ELSE ForceGuestCommit({}, t, FALSE)

forceguest_listing_deleted(t) ==
    /\ t.op \in {"guestclaim", "randomguest"} /\ t.pc = "force_delete"
    /\ ForceGuestCommit({t}, t, TRUE)

guestclaim_cmd(caller, guest_tag, item_code) ==
    LET tid == get_active_thread_id
    IN  IF \/ ~is_staff(caller)
           \/ tid = 0
           \/ parse_item_code(CodeText(item_code)) = <<>>
           \/ ~has_guest(guest_tag)
           \/ guest_winners[guest_tag] <= 0
           \/ is_item_claimed(item_code, tid)
           \/ ~has_item(item_code)
        THEN Rejected("guestclaim")
        ELSE /\ CanSpawn
             /\ force_claim_guest(Task("guestclaim", "start", NULL, guest_tag, item_code,
                                       NoItem, tid, 0, 0, 0))

randomguest_cmd(caller, guest_tag, category) ==
    LET tid == get_active_thread_id
    IN  IF \/ ~is_staff(caller)
           \/ category \notin Categories
           \/ tid = 0
           \/ ~has_guest(guest_tag)
           \/ guest_winners[guest_tag] <= 0
           \/ list_unclaimed_items(tid, category) = {}
        THEN Rejected("randomguest")
        ELSE /\ CanSpawn
             /\ \E pick \in list_unclaimed_items(tid, category) :
                    force_claim_guest(Task("randomguest", "start", NULL, guest_tag, pick,
                                           NoItem, tid, 0, 0, 0))

(***************************************************************************)
(* unassign_cmd                                                            *)
(***************************************************************************)
\* unassign without the check of the claim's owner
unassign_cmdAnyOwner(caller, member, item_code) ==
    LET tid == get_active_thread_id
        claim == get_claim_for_item(tid, item_code)
    IN  IF \/ ~is_staff(caller)
           \/ tid = 0
           \/ parse_item_code(CodeText(item_code)) = <<>>
           \/ claim = {}
        THEN Rejected("unassign")
        ELSE /\ CanSpawn
             /\ Resched({}, {Task("unassign", "delete_post", member, "", item_code, NoItem,
                                  tid, 0, (CHOOSE c \in claim : TRUE).id, 0)})
             /\ Note("unassign", "suspended")
             /\ UNCHANGED <<ledger, settings, pending, now, discord>>

unassign_cmd(caller, member, item_code) ==
    LET tid == get_active_thread_id
        claim == get_claim_for_item(tid, item_code)
    IN  IF \/ ~is_staff(caller)
           \/ tid = 0
           \/ parse_item_code(CodeText(item_code)) = <<>>
           \/ claim = {}
           \/ \E c \in claim : c.user_id = NULL \/ c.user_id # member
        THEN Rejected("unassign")
        ELSE /\ CanSpawn
             /\ Resched({}, {Task("unassign", "delete_post", member, "", item_code, NoItem,
                                  tid, 0, (CHOOSE c \in claim : TRUE).id, 0)})
             /\ Note("unassign", "suspended")
             /\ UNCHANGED <<ledger, settings, pending, now, discord>>

\* the refund writing 1 whatever the live row holds
unassign_post_deletedOne(t) ==
    /\ t.op = "unassign" /\ t.pc = "delete_post"
    /\ claims' = delete_claim_by_id(claims, t.cid)
    /\ set_member_winner_remaining({t}, t, 1)
    /\ Note("unassign", "deleted")
    /\ UNCHANGED <<items, guest_winners, nextClaimId, settings, pending, now,
                   nextThread, thread_posts>>

\* delete_claim_post_from_thread returned: delete the row, refund the pick
unassign_post_deleted(t) ==
    /\ t.op = "unassign" /\ t.pc = "delete_post"
    /\ claims' = delete_claim_by_id(claims, t.cid)
    /\ set_member_winner_remaining({t}, t, IF has_winner(t.user) THEN winners[t.user] + 1 ELSE 1)
    /\ Note("unassign", "deleted")
    /\ UNCHANGED <<items, guest_winners, nextClaimId, settings, pending, now,
                   nextThread, thread_posts>>

\* repost_listing: the listing was sent, its id is recorded
repost_send_done(t) ==
    /\ t.op = "unassign" /\ t.pc = "repost_send"
    /\ items' = update_item_selection_message_id(items, t.item, ListingId(t.item))
    /\ Resched({t}, {})
    /\ Note("unassign", "reposted")
    /\ UNCHANGED <<winners, guest_winners, claims, nextClaimId, settings, pending, now,
                   roles, nextThread, thread_posts>>

(***************************************************************************)
(* filewatcher/card_match.py and filewatcher/watcher.py.  A file name is   *)
(* the sequence of its characters; a path is the watch root it lies        *)
(* under, the directory under that root (<<>> when the file lies in the    *)
(* root itself) and the stem of its name; every file has the extension     *)
(* Extension.  None is <<>>, an object x that may be None is <<x>>.        *)
(***************************************************************************)
Extension == <<".", "p", "n", "g">>

NSFW_WATCH_PATH == "/watched/nsfw"
SFW_WATCH_PATH == "/watched/sfw"

Path(root, dir, stem) == [root |-> root, dir |-> dir, stem |-> stem]

\* str.lower(), on the characters the modelled names are written with
lower(s) ==
    [i \in DOMAIN s |->
        CASE s[i] = "A" -> "a" [] s[i] = "M" -> "m" [] s[i] = "R" -> "r"
          [] s[i] = "W" -> "w" [] OTHER -> s[i]]

\* str.endswith(token)
endswith(s, token) ==
    Len(s) >= Len(token) /\ SubSeq(s, Len(s) - Len(token) + 1, Len(s)) = token

\* the tokens _derive_name_id strips, in its order
NameTokens ==
    << <<"-", "r", "a", "w">>, <<"_", "r", "a", "w">>, <<"-", "w", "m">>, <<"_", "w", "m">>,
       <<"-", "w", "a", "t", "e", "r", "m", "a", "r", "k", "e", "d">>,
       <<"_", "w", "a", "t", "e", "r", "m", "a", "r", "k", "e", "d">> >>

\* `for token in (...): if name.endswith(token): return name[: -len(token)]`
RECURSIVE StripToken(_, _)
StripToken(name, tokens) ==
    IF tokens = <<>> THEN name
    ELSE IF endswith(name, Head(tokens))
    THEN SubSeq(name, 1, Len(name) - Len(Head(tokens)))
    ELSE StripToken(name, Tail(tokens))

_derive_name_id(path) == StripToken(lower(path.stem), NameTokens)

\* "raw" in path.name.lower()
_is_raw(path) ==
    LET name == lower(path.stem \o Extension)
    IN  \E i \in 1..(Len(name) - 2) : SubSeq(name, i, i + 2) = <<"r", "a", "w">>

_PartialPair(name_id, nsfw, watch_root) ==
    [name_id |-> name_id, nsfw |-> nsfw, watch_root |-> watch_root,
     raw |-> <<>>, watermarked |-> <<>>]

\* CardFile(path=path, size_bytes=...): the size is not told apart
CardFile(path) == [path |-> path]

CardPair(name_id, raw, watermarked, nsfw) ==
    [name_id |-> name_id, raw |-> raw, watermarked |-> watermarked, nsfw |-> nsfw]

\* the files taken for name_id since its last pair
Taken(name_id) == IF name_id \in DOMAIN added THEN added[name_id] ELSE <<>>

\* CardMatcher.add_file, _organize_pair moving the two files included
add_file(path, nsfw, watch_root) ==
    LET name_id == _derive_name_id(path)
        is_raw == _is_raw(path)
        partial == IF name_id \in DOMAIN _buffer THEN _buffer[name_id]
                   ELSE _PartialPair(name_id, nsfw, watch_root)
        card_file == CardFile(path)
        filled == IF is_raw THEN [partial EXCEPT !.raw = <<card_file>>]
                  ELSE [partial EXCEPT !.watermarked = <<card_file>>]
    IN  IF path.root = watch_root /\ path.dir = name_id
        THEN /\ returned' = <<>>
             /\ UNCHANGED <<_buffer, added>>
        ELSE /\ Len(Taken(name_id)) < MaxFiles
             /\ IF filled.raw # <<>> /\ filled.watermarked # <<>>
                THEN /\ _buffer' = Remove(_buffer, name_id)
                     /\ returned' = <<CardPair(name_id, filled.raw[1], filled.watermarked[1],
                                               filled.nsfw)>>
                     /\ added' = Remove(added, name_id)
                ELSE /\ _buffer' = Upsert(_buffer, name_id, filled)
                     /\ returned' = <<>>
                     /\ added' = Upsert(added, name_id,
                                        Taken(name_id) \o <<[path |-> path, nsfw |-> nsfw]>>)

\* handle_path for a file that wait_for_file found complete (a dropped
\* directory is the same call for each file under it)
handle_path(path, source, watch_root) ==
    /\ add_file(path, source = "NSFW", watch_root)
    /\ UNCHANGED <<ledger, settings, pending, now, discord, tasks, last>>

\* the names dropped into the watched directories
Stems ==
    { <<"a", "_", "r", "a", "w">>, <<"A", "-", "W", "M">>,
      <<"d", "r", "a", "w", "_", "r", "a", "w">>, <<"d", "r", "a", "w", "_", "w", "m">> }

\* PrintOnCreate.on_created of the observer of either directory: a file
\* in the watch root, or in the directory of its name id under it
FileCreated ==
    \E source \in {"NSFW", "SFW"}, stem \in Stems, organized \in BOOLEAN :
        LET watch_root == IF source = "NSFW" THEN NSFW_WATCH_PATH ELSE SFW_WATCH_PATH
            dir == IF organized THEN _derive_name_id(Path(watch_root, <<>>, stem)) ELSE <<>>
        IN  handle_path(Path(watch_root, dir, stem), source, watch_root)

(***************************************************************************)
(* The bot: every command of a caller, every reaction event, and every     *)
(* return of an await of a suspended handler.  oks is the set of outcomes  *)
(* of the discord calls that may fail (TRUE: the call returned).           *)
(***************************************************************************)
Amounts == -1..MaxPicks

Upload(callers) ==
    \E caller \in callers, c \in ItemCodes : c[1] \in UploadCategories /\ upload_cmd(caller, c)

Winner(callers) ==
    \E caller \in callers, m \in Members, a \in Amounts : winner_cmd(caller, m, a)

GuestWinner(callers) ==
    \E caller \in callers, g \in Guests, a \in Amounts : guestwinner_cmd(caller, g, a)

Assign(callers) ==
    \E caller \in callers, m \in Members, c \in ItemCodes : assign_cmd(caller, m, c)

Random(callers) ==
    \E caller \in callers, m \in Members, cat \in Categories : random_cmd(caller, m, cat)

GuestClaim(callers) ==
    \E caller \in callers, g \in Guests, c \in ItemCodes : guestclaim_cmd(caller, g, c)

RandomGuest(callers) ==
    \E caller \in callers, g \in Guests, cat \in Categories : randomguest_cmd(caller, g, cat)

Unassign(callers) ==
    \E caller \in callers, m \in Members, c \in ItemCodes : unassign_cmd(caller, m, c)

Swap(callers) ==
    \E caller \in callers, m \in Members, c, d \in ItemCodes : swap_cmd(caller, m, c, d)

\* the random commands with the category argument drawn from cats
RandomOf(callers, cats) ==
    \E caller \in callers, m \in Members, cat \in cats : random_cmd(caller, m, cat)

RandomGuestOf(callers, cats) ==
    \E caller \in callers, g \in Guests, cat \in cats : randomguest_cmd(caller, g, cat)

\* the same commands with the item arguments drawn from codes
UploadOf(callers, codes) ==
    \E caller \in callers, c \in codes : upload_cmd(caller, c)

AssignOf(callers, codes) ==
    \E caller \in callers, m \in Members, c \in codes : assign_cmd(caller, m, c)

SwapOf(callers, codes) ==
    \E caller \in callers, m \in Members, c, d \in codes : swap_cmd(caller, m, c, d)

UnassignOf(callers, codes) ==
    \E caller \in callers, m \in Members, c \in codes : unassign_cmd(caller, m, c)

\* reactions to the listings of codes, or to a message that is no listing
ReactionTo(codes, cacheds) ==
    \E u \in Members, msg \in {ListingId(c) : c \in codes} \cup {OtherMessage},
       e \in BOOLEAN, cached \in cacheds :
        on_raw_reaction_add(u, msg, e, cached)

Panic(callers, confirms) ==
    \E caller \in callers, cf \in confirms : panic_cmd(caller, cf)

Unpanic(callers) == \E caller \in callers : unpanic_cmd(caller)

Wipe(callers, confirms) ==
    \E caller \in callers, cf \in confirms : wipe_cmd(caller, cf)

Newshow(callers, confirms) ==
    \E caller \in callers, cf \in confirms : newshow_cmd(caller, cf)

Endshow(callers, confirms) ==
    \E caller \in callers, cf \in confirms : endshow_cmd(caller, cf)

Export(callers) == \E caller \in callers, mode \in {"", "all"} : export_cmd(caller, mode)

Restart == \E help_sent \in BOOLEAN : process_start(help_sent)

Reaction(cacheds) ==
    \E u \in Members, msg \in MessageIds, e \in BOOLEAN, cached \in cacheds :
        on_raw_reaction_add(u, msg, e, cached)

RoleRemoved(oks) == \E t \in Running, ok \in oks : smwr_remove_done(t, ok)

RoleAdded(oks) == \E t \in Running, ok \in oks : smwr_add_done(t, ok)

MemberFetched(oks) == \E t \in Running, ok \in oks : react_fetch_member_done(t, ok)

ReactionPosted == \E t \in Running : react_post_done(t)

ThreadCreated == \E t \in Running : newshow_thread_created(t)

ThreadCreatedUpTo(cap) == \E t \in Running : newshow_thread_createdUpTo(t, cap)

ChannelsLocked == \E t \in Running : endshow_locked(t)

\* rebuild banners in the thread
Rebuilds(posts) == Len(SelectSeq(posts, LAMBDA msg : msg.kind = "banner"))

Sort(callers) ==
    /\ Rebuilds(thread_posts) < MaxSorts
    /\ \E caller \in callers : sort_cmd(caller)

SortDeleted == \E t \in Running : sort_deleted(t)

SortRebuilt == \E t \in Running : sort_rebuilt(t)

AssignListingDeleted == \E t \in Running : assign_listing_deleted(t)

AssignRoleRemoved(oks) == \E t \in Running, ok \in oks : assign_remove_done(t, ok)

AssignRoleAdded(oks) == \E t \in Running, ok \in oks : assign_add_done(t, ok)

ForceListingDeleted == \E t \in Running : force_listing_deleted(t)

SwapReposted == \E t \in Running : swap_repost_done(t)

GuestListingDeleted == \E t \in Running : forceguest_listing_deleted(t)

UnassignPostDeleted == \E t \in Running : unassign_post_deleted(t)

Reposted == \E t \in Running : repost_send_done(t)

Next ==
    \/ Upload(Callers)
    \/ Winner(Callers)
    \/ GuestWinner(Callers)
    \/ Assign(Callers)
    \/ Random(Callers)
    \/ GuestClaim(Callers)
    \/ RandomGuest(Callers)
    \/ Unassign(Callers)
    \/ Swap(Callers)
    \/ Panic(Callers, Confirms)
    \/ Unpanic(Callers)
    \/ Wipe(Callers, Confirms)
    \/ Newshow(Callers, Confirms)
    \/ Endshow(Callers, Confirms)
    \/ Reaction(BOOLEAN)
    \/ RoleRemoved(BOOLEAN)
    \/ RoleAdded(BOOLEAN)
    \/ MemberFetched(BOOLEAN)
    \/ ReactionPosted
    \/ ThreadCreated
    \/ ChannelsLocked
    \/ AssignListingDeleted
    \/ AssignRoleRemoved(BOOLEAN)
    \/ AssignRoleAdded(BOOLEAN)
    \/ ForceListingDeleted
    \/ SwapReposted
    \/ GuestListingDeleted
    \/ UnassignPostDeleted
    \/ Reposted
    \/ Sort(Callers)
    \/ SortDeleted
    \/ SortRebuilt
    \/ Export(Callers)
    \/ Restart
    \/ FileCreated
    \/ Tick

Spec == Init /\ [][Next]_vars

(***************************************************************************)
(* The pick ledger: grants, every pick-consuming claim path and the        *)
(* refund, by staff callers during one show, all discord calls returning.  *)
(***************************************************************************)
NextPicks ==
    \/ Upload(Staff)
    \/ Winner(Staff)
    \/ GuestWinner(Staff)
    \/ Newshow(Staff, {"CONFIRM"})
    \/ ThreadCreated
    \/ Reaction(BOOLEAN)
    \/ MemberFetched({TRUE})
    \/ ReactionPosted
    \/ Assign(Staff)
    \/ AssignListingDeleted
    \/ AssignRoleRemoved({TRUE})
    \/ AssignRoleAdded({TRUE})
    \/ Random(Staff)
    \/ ForceListingDeleted
    \/ GuestClaim(Staff)
    \/ RandomGuest(Staff)
    \/ GuestListingDeleted
    \/ Unassign(Staff)
    \/ UnassignPostDeleted
    \/ Reposted
    \/ RoleRemoved({TRUE})
    \/ RoleAdded({TRUE})

SpecPicks == Init /\ [][NextPicks]_vars

(***************************************************************************)
(* Claim handlers racing with each other and with the show controls: the   *)
(* reaction handler (member in the payload), assign, random and unassign   *)
(* of staff callers, while staff raise and lower panic and end the show.   *)
(***************************************************************************)
NextRace ==
    \/ Upload(Staff)
    \/ Winner(Staff)
    \/ Newshow(Staff, {"CONFIRM"})
    \/ ThreadCreated
    \/ Reaction({TRUE})
    \/ ReactionPosted
    \/ RoleRemoved({TRUE})
    \/ RoleAdded({TRUE})
    \/ Assign(Staff)
    \/ AssignListingDeleted
    \/ AssignRoleRemoved({TRUE})
    \/ AssignRoleAdded({TRUE})
    \/ Random(Staff)
    \/ ForceListingDeleted
    \/ Unassign(Staff)
    \/ UnassignPostDeleted
    \/ Reposted
    \/ Panic(Staff, {"CONFIRM"})
    \/ Unpanic(Staff)
    \/ Endshow(Staff, {"CONFIRM"})
    \/ ChannelsLocked

SpecRace == Init /\ [][NextRace]_vars

(***************************************************************************)
(* The show controls: the confirmation gate with its clock, panic, wipe    *)
(* and the show lifecycle, by staff callers, over a ledger that holds the  *)
(* uploaded items.                                                         *)
(***************************************************************************)
NextGate ==
    \/ Upload(Staff)
    \/ Panic(Staff, Confirms)
    \/ Unpanic(Staff)
    \/ Wipe(Staff, Confirms)
    \/ Newshow(Staff, Confirms)
    \/ ThreadCreated
    \/ Endshow(Staff, Confirms)
    \/ ChannelsLocked
    \/ Tick

SpecGate == Init /\ [][NextGate]_vars

(***************************************************************************)
(* Swap: staff assign and swap claims between the items of one category    *)
(* during a show, and end the show.                                        *)
(***************************************************************************)
NextSwap ==
    \/ UploadOf(Staff, SwapItemCodes)
    \/ Winner(Staff)
    \/ Newshow(Staff, {"CONFIRM"})
    \/ ThreadCreated
    \/ RoleRemoved({TRUE})
    \/ RoleAdded({TRUE})
    \/ AssignOf(Staff, SwapItemCodes)
    \/ AssignListingDeleted
    \/ AssignRoleRemoved({TRUE})
    \/ AssignRoleAdded({TRUE})
    \/ SwapOf(Staff, SwapItemCodes)
    \/ SwapReposted
    \/ ForceListingDeleted
    \/ Endshow(Staff, {"CONFIRM"})
    \/ ChannelsLocked

SpecSwap == Init /\ [][NextSwap]_vars

(***************************************************************************)
(* Claims, unassigns and re-claims one after the other: a command or a     *)
(* reaction arrives only when no handler is suspended.  The show is        *)
(* started once, each member is granted MaxPicks picks once, and every     *)
(* discord call returns, except that removing a role may be forbidden and  *)
(* the role calls of assign may fail.                                      *)
(***************************************************************************)
Quiet == tasks = EmptyBag

NextRoundTrip ==
    \/ Quiet /\ UploadOf(Staff, SwapItemCodes)
    \/ Quiet /\ \E caller \in Staff, m \in Members :
                    ~has_winner(m) /\ claims = {} /\ winner_cmd(caller, m, MaxPicks)
    \/ Quiet /\ get_active_thread_id = 0 /\ Newshow(Staff, {"CONFIRM"})
    \/ ThreadCreated
    \/ Quiet /\ ReactionTo(SwapItemCodes, {TRUE})
    \/ ReactionPosted
    \/ RoleRemoved(BOOLEAN)
    \/ RoleAdded({TRUE})
    \/ Quiet /\ AssignOf(Staff, SwapItemCodes)
    \/ AssignListingDeleted
    \/ AssignRoleRemoved(BOOLEAN)
    \/ AssignRoleAdded(BOOLEAN)
    \/ Quiet /\ UnassignOf(Staff, SwapItemCodes)
    \/ UnassignPostDeleted
    \/ Reposted

SpecRoundTrip == Init /\ [][NextRoundTrip]_vars

(***************************************************************************)
(* The claim log: one show in which staff grant picks, assign items to     *)
(* members, claim for guests, rebuild the log and end the show, one        *)
(* command after the other, every discord call returning.                  *)
(***************************************************************************)
NextSort ==
    \/ Quiet /\ UploadOf(Staff, SwapItemCodes)
    \/ Quiet /\ \E caller \in Staff, m \in Members :
                    ~has_winner(m) /\ claims = {} /\ winner_cmd(caller, m, MaxPicks)
    \/ Quiet /\ \E caller \in Staff, g \in Guests :
                    ~has_guest(g) /\ claims = {} /\ guestwinner_cmd(caller, g, 1)
    \/ RoleRemoved({TRUE}) \/ RoleAdded({TRUE})
    \/ Quiet /\ nextThread = 1 /\ Newshow(Staff, {"CONFIRM"})
    \/ ThreadCreated
    \/ Quiet /\ AssignOf(Staff, SwapItemCodes)
    \/ AssignListingDeleted \/ AssignRoleRemoved({TRUE}) \/ AssignRoleAdded({TRUE})
    \/ Quiet /\ GuestClaim(Staff)
    \/ GuestListingDeleted
    \/ Quiet /\ Sort(Staff)
    \/ SortDeleted \/ SortRebuilt
    \/ Quiet /\ Endshow(Staff, {"CONFIRM"})
    \/ ChannelsLocked

SpecSort == Init /\ [][NextSort]_vars

(***************************************************************************)
(* Every pick-consuming path in one show, one command after the other,     *)
(* each member and guest granted MaxPicks once; remove_roles and add_roles *)
(* return or raise.                                                        *)
(***************************************************************************)
NextAtomic ==
    \/ Quiet /\ UploadOf(Staff, SwapItemCodes)
    \/ Quiet /\ \E caller \in Staff, m \in Members :
                    ~has_winner(m) /\ claims = {} /\ winner_cmd(caller, m, MaxPicks)
    \/ Quiet /\ \E caller \in Staff, g \in Guests :
                    ~has_guest(g) /\ claims = {} /\ guestwinner_cmd(caller, g, MaxPicks)
    \/ Quiet /\ nextThread = 1 /\ Newshow(Staff, {"CONFIRM"})
    \/ ThreadCreated
    \/ Quiet /\ ReactionTo(SwapItemCodes, {TRUE})
    \/ ReactionPosted
    \/ RoleRemoved(BOOLEAN) \/ RoleAdded(BOOLEAN)
    \/ Quiet /\ AssignOf(Staff, SwapItemCodes)
    \/ AssignListingDeleted \/ AssignRoleRemoved(BOOLEAN) \/ AssignRoleAdded(BOOLEAN)
    \/ Quiet /\ Random(Staff)
    \/ ForceListingDeleted
    \/ Quiet /\ GuestClaim(Staff)
    \/ Quiet /\ RandomGuest(Staff)
    \/ GuestListingDeleted

SpecAtomic == Init /\ [][NextAtomic]_vars

(***************************************************************************)
(* The same paths with add_roles of set_member_winner_remaining returning: *)
(* the failures left are those the handlers catch.                         *)
(***************************************************************************)
NextAccepted ==
    \/ Quiet /\ UploadOf(Staff, SwapItemCodes)
    \/ Quiet /\ \E caller \in Staff, m \in Members :
                    ~has_winner(m) /\ claims = {} /\ winner_cmd(caller, m, MaxPicks)
    \/ Quiet /\ \E caller \in Staff, g \in Guests :
                    ~has_guest(g) /\ claims = {} /\ guestwinner_cmd(caller, g, MaxPicks)
    \/ Quiet /\ nextThread = 1 /\ Newshow(Staff, {"CONFIRM"})
    \/ ThreadCreated
    \/ Quiet /\ ReactionTo(SwapItemCodes, {TRUE})
    \/ ReactionPosted
    \/ RoleRemoved(BOOLEAN) \/ RoleAdded({TRUE})
    \/ Quiet /\ AssignOf(Staff, SwapItemCodes)
    \/ AssignListingDeleted \/ AssignRoleRemoved(BOOLEAN) \/ AssignRoleAdded(BOOLEAN)
    \/ Quiet /\ Random(Staff)
    \/ ForceListingDeleted
    \/ Quiet /\ GuestClaim(Staff)
    \/ Quiet /\ RandomGuest(Staff)
    \/ GuestListingDeleted

SpecAccepted == Init /\ [][NextAccepted]_vars

(***************************************************************************)
(* Grants next to reaction claims in one show: staff top up members by one *)
(* pick and guests by any amount, also while a reaction handler of the     *)
(* member is suspended in an await; one grant to members at a time, every  *)
(* discord call returning.                                                 *)
(***************************************************************************)
NextGrant ==
    \/ Quiet /\ UploadOf(Staff, SwapItemCodes)
    \/ Quiet /\ nextThread = 1 /\ Newshow(Staff, {"CONFIRM"})
    \/ ThreadCreated
    \/ /\ \A t \in Running : t.op # "winner"
       /\ \E caller \in Staff, m \in Members, a \in {-1, 0, 1} : winner_cmd(caller, m, a)
    \/ GuestWinner(Staff)
    \/ ReactionTo(SwapItemCodes, {TRUE})
    \/ ReactionPosted
    \/ RoleRemoved({TRUE}) \/ RoleAdded({TRUE})

SpecGrant == Init /\ [][NextGrant]_vars

(***************************************************************************)
(* Show after show: uploads, grants, guest claims, panic and the session   *)
(* commands, one command after the other, every discord call returning.    *)
(***************************************************************************)
NextNewshow ==
    \/ Quiet /\ Upload(Staff)
    \/ Quiet /\ \E caller \in Staff, m \in Members :
                    ~has_winner(m) /\ winner_cmd(caller, m, MaxPicks)
    \/ RoleRemoved({TRUE}) \/ RoleAdded({TRUE})
    \/ Quiet /\ \E caller \in Staff, g \in Guests :
                    ~has_guest(g) /\ guestwinner_cmd(caller, g, 1)
    \/ Quiet /\ Newshow(Callers, Confirms)
    \/ ThreadCreatedUpTo(MaxShows)
    \/ Quiet /\ GuestClaim(Staff)
    \/ GuestListingDeleted
    \/ Quiet /\ Panic(Staff, {"CONFIRM"})
    \/ Quiet /\ Endshow(Staff, {"CONFIRM"})
    \/ ChannelsLocked

SpecNewshow == Init /\ [][NextNewshow]_vars

(***************************************************************************)
(* Reactions in every situation the handler tells apart: before, during    *)
(* and after a show, with panic on and off, on listings, claimed listings  *)
(* posted again and other messages, by members with and without picks; one *)
(* command after the other, every discord call returning.                  *)
(***************************************************************************)
NextChecks ==
    \/ Quiet /\ UploadOf(Staff, SwapItemCodes)
    \/ Quiet /\ \E caller \in Staff, m \in Members :
                    Remaining(m) = 0 /\ winner_cmd(caller, m, 1)
    \/ RoleRemoved({TRUE}) \/ RoleAdded({TRUE})
    \/ Quiet /\ nextThread = 1 /\ Newshow(Staff, {"CONFIRM"})
    \/ ThreadCreated
    \/ Quiet /\ ReactionTo(SwapItemCodes, {TRUE})
    \/ ReactionPosted
    \/ Quiet /\ Panic(Staff, {"CONFIRM"})
    \/ Quiet /\ Unpanic(Staff)
    \/ Quiet /\ Endshow(Staff, {"CONFIRM"})
    \/ ChannelsLocked

SpecChecks == Init /\ [][NextChecks]_vars

(***************************************************************************)
(* Claim ids over the life of the database: claims by reaction and assign, *)
(* deleted again by unassign, swap, wipe and the next newshow; each member *)
(* is granted MaxPicks once per ledger, one command after the other, every *)
(* discord call returning.                                                 *)
(***************************************************************************)
NextIds ==
    \/ Quiet /\ UploadOf(Staff, SwapItemCodes)
    \/ Quiet /\ \E caller \in Staff, m \in Members :
                    ~has_winner(m) /\ claims = {} /\ winner_cmd(caller, m, MaxPicks)
    \/ RoleRemoved({TRUE}) \/ RoleAdded({TRUE})
    \/ Quiet /\ get_active_thread_id = 0 /\ Newshow(Staff, {"CONFIRM"})
    \/ ThreadCreatedUpTo(MaxShows)
    \/ Quiet /\ ReactionTo(SwapItemCodes, {TRUE})
    \/ ReactionPosted
    \/ Quiet /\ AssignOf(Staff, SwapItemCodes)
    \/ AssignListingDeleted \/ AssignRoleRemoved({TRUE}) \/ AssignRoleAdded({TRUE})
    \/ Quiet /\ UnassignOf(Staff, SwapItemCodes)
    \/ UnassignPostDeleted
    \/ Reposted
    \/ Quiet /\ SwapOf(Staff, SwapItemCodes)
    \/ SwapReposted
    \/ ForceListingDeleted
    \/ Quiet /\ Endshow(Staff, {"CONFIRM"})
    \/ ChannelsLocked
    \/ Quiet /\ Wipe(Staff, {"CONFIRM"})

SpecIds == Init /\ [][NextIds]_vars

(***************************************************************************)
(* One pick each: in one show every member and every guest is granted one  *)
(* pick once, before any claim, and then reactions, assign, random and the *)
(* guest claims arrive while other handlers are suspended in their awaits; *)
(* every discord call returns.                                             *)
(***************************************************************************)
NextConserve ==
    \/ Quiet /\ UploadOf(Staff, SwapItemCodes)
    \/ Quiet /\ \E caller \in Staff, m \in Members :
                    ~has_winner(m) /\ claims = {} /\ winner_cmd(caller, m, 1)
    \/ Quiet /\ \E caller \in Staff, g \in Guests :
                    ~has_guest(g) /\ claims = {} /\ guestwinner_cmd(caller, g, 1)
    \/ Quiet /\ nextThread = 1 /\ Newshow(Staff, {"CONFIRM"})
    \/ ThreadCreated
    \/ ReactionTo(SwapItemCodes, BOOLEAN)
    \/ MemberFetched({TRUE})
    \/ ReactionPosted
    \/ RoleRemoved({TRUE}) \/ RoleAdded({TRUE})
    \/ AssignOf(Staff, SwapItemCodes)
    \/ AssignListingDeleted \/ AssignRoleRemoved({TRUE})
    \/ Random(Staff)
    \/ ForceListingDeleted
    \/ GuestClaim(Staff)
    \/ RandomGuest(Staff)
    \/ GuestListingDeleted

SpecConserve == Init /\ [][NextConserve]_vars

(***************************************************************************)
(* Listings over one show: items are uploaded before the first claim, then *)
(* claimed by reaction, assign, random, guest claim and swap and released  *)
(* by unassign, one command after the other, every discord call returning. *)
(***************************************************************************)
NextListing ==
    \/ Quiet /\ claims = {} /\ UploadOf(Staff, SwapItemCodes)
    \/ Quiet /\ \E caller \in Staff, m \in Members :
                    ~has_winner(m) /\ claims = {} /\ winner_cmd(caller, m, MaxPicks)
    \/ Quiet /\ \E caller \in Staff, g \in Guests :
                    ~has_guest(g) /\ claims = {} /\ guestwinner_cmd(caller, g, MaxPicks)
    \/ RoleRemoved({TRUE}) \/ RoleAdded({TRUE})
    \/ Quiet /\ nextThread = 1 /\ Newshow(Staff, {"CONFIRM"})
    \/ ThreadCreated
    \/ Quiet /\ ReactionTo(SwapItemCodes, {TRUE})
    \/ ReactionPosted
    \/ Quiet /\ AssignOf(Staff, SwapItemCodes)
    \/ AssignListingDeleted \/ AssignRoleRemoved({TRUE}) \/ AssignRoleAdded({TRUE})
    \/ Quiet /\ Random(Staff)
    \/ Quiet /\ SwapOf(Staff, SwapItemCodes)
    \/ SwapReposted
    \/ ForceListingDeleted
    \/ Quiet /\ GuestClaim(Staff)
    \/ GuestListingDeleted
    \/ Quiet /\ UnassignOf(Staff, SwapItemCodes)
    \/ UnassignPostDeleted
    \/ Reposted

SpecListing == Init /\ [][NextListing]_vars

(***************************************************************************)
(* Unassign in every situation it tells apart: before, during and after a  *)
(* show, for items claimed by the member, claimed by a guest, unclaimed,   *)
(* and for an argument that is no item code; one command after the other,  *)
(* every discord call returning.                                           *)
(***************************************************************************)
NextUnassign ==
    \/ Quiet /\ claims = {} /\ UploadOf(Staff, SwapItemCodes)
    \/ Quiet /\ \E caller \in Staff, m \in Members :
                    ~has_winner(m) /\ claims = {} /\ winner_cmd(caller, m, MaxPicks)
    \/ Quiet /\ \E caller \in Staff, g \in Guests :
                    ~has_guest(g) /\ claims = {} /\ guestwinner_cmd(caller, g, MaxPicks)
    \/ RoleRemoved({TRUE}) \/ RoleAdded({TRUE})
    \/ Quiet /\ nextThread = 1 /\ Newshow(Staff, {"CONFIRM"})
    \/ ThreadCreated
    \/ Quiet /\ AssignOf(Staff, SwapItemCodes)
    \/ AssignListingDeleted \/ AssignRoleRemoved({TRUE}) \/ AssignRoleAdded({TRUE})
    \/ Quiet /\ GuestClaim(Staff)
    \/ GuestListingDeleted
    \/ Quiet /\ UnassignOf(Staff, SwapItemCodes \cup {BadItemCode})
    \/ UnassignPostDeleted
    \/ Reposted
    \/ Quiet /\ Endshow(Staff, {"CONFIRM"})
    \/ ChannelsLocked

SpecUnassign == Init /\ [][NextUnassign]_vars

(***************************************************************************)
(* Swap in every situation it tells apart: items uploaded before the first *)
(* claim, assigned to members and claimed for guests during one show, and  *)
(* swapped; one command after the other, every discord call returning.     *)
(***************************************************************************)
NextSwapChecks ==
    \/ Quiet /\ claims = {} /\ UploadOf(Staff, SwapItemCodes)
    \/ Quiet /\ \E caller \in Staff, m \in Members :
                    ~has_winner(m) /\ claims = {} /\ winner_cmd(caller, m, MaxPicks)
    \/ Quiet /\ \E caller \in Staff, g \in Guests :
                    ~has_guest(g) /\ claims = {} /\ guestwinner_cmd(caller, g, MaxPicks)
    \/ RoleRemoved({TRUE}) \/ RoleAdded({TRUE})
    \/ Quiet /\ nextThread = 1 /\ Newshow(Staff, {"CONFIRM"})
    \/ ThreadCreated
    \/ Quiet /\ AssignOf(Staff, SwapItemCodes)
    \/ AssignListingDeleted \/ AssignRoleRemoved({TRUE}) \/ AssignRoleAdded({TRUE})
    \/ Quiet /\ GuestClaim(Staff)
    \/ GuestListingDeleted
    \/ Quiet /\ SwapOf(Staff, SwapItemCodes)
    \/ SwapReposted
    \/ ForceListingDeleted

SpecSwapChecks == Init /\ [][NextSwapChecks]_vars

(***************************************************************************)
(* Two staff actors at the confirmation gate: panic and wipe, with and     *)
(* without the confirm argument, while the clock advances and items are    *)
(* uploaded.                                                               *)
(***************************************************************************)
NextTokens ==
    \/ Upload(Staff)
    \/ Panic(Staff \cup SecondStaff, Confirms)
    \/ Wipe(Staff \cup SecondStaff, Confirms)
    \/ Tick

SpecTokens == Init /\ [][NextTokens]_vars

(***************************************************************************)
(* One show run by staff (uploads, one grant per member and guest, claims, *)
(* swaps, unassigns, one rebuild, panic, endshow) with callers without a   *)
(* staff role trying every command of the bot along the way; one command   *)
(* after the other, every discord call returning.                          *)
(***************************************************************************)
NextStaff ==
    \/ Quiet /\ UploadOf(Callers, SwapItemCodes)
    \/ Quiet /\ \E caller \in Callers, m \in Members :
                    /\ is_staff(caller) => (~has_winner(m) /\ claims = {})
                    /\ winner_cmd(caller, m, MaxPicks)
    \/ Quiet /\ \E caller \in Callers, g \in Guests :
                    /\ is_staff(caller) => (~has_guest(g) /\ claims = {})
                    /\ guestwinner_cmd(caller, g, 1)
    \/ RoleRemoved({TRUE}) \/ RoleAdded({TRUE})
    \/ Quiet /\ \E caller \in Callers :
                    /\ is_staff(caller) => nextThread = 1
                    /\ newshow_cmd(caller, "CONFIRM")
    \/ ThreadCreated
    \/ Quiet /\ AssignOf(Callers, SwapItemCodes)
    \/ AssignListingDeleted \/ AssignRoleRemoved({TRUE}) \/ AssignRoleAdded({TRUE})
    \/ Quiet /\ Random(Callers)
    \/ Quiet /\ SwapOf(Callers, SwapItemCodes)
    \/ SwapReposted
    \/ ForceListingDeleted
    \/ Quiet /\ GuestClaim(Callers)
    \/ Quiet /\ RandomGuest(Callers)
    \/ GuestListingDeleted
    \/ Quiet /\ UnassignOf(Callers, SwapItemCodes)
    \/ UnassignPostDeleted
    \/ Reposted
    \/ Quiet /\ \E caller \in Callers :
                    /\ is_staff(caller) => thread_posts = <<>>
                    /\ sort_cmd(caller)
    \/ SortDeleted \/ SortRebuilt
    \/ Quiet /\ Panic(Callers, Confirms)
    \/ Quiet /\ Unpanic(NonStaff)
    \/ Quiet /\ Wipe(NonStaff, {"CONFIRM"})
    \/ Quiet /\ Endshow(Callers, {"CONFIRM"})
    \/ ChannelsLocked
    \/ Quiet /\ Export(NonStaff)

SpecStaff == Init /\ [][NextStaff]_vars

(***************************************************************************)
(* The process restarted at any moment, a handler suspended or not, of a   *)
(* show with two staff actors at the confirmation gate: uploads, a grant,  *)
(* newshow, assign, panic and wipe.                                        *)
(***************************************************************************)
NextRestart ==
    \/ Quiet /\ Upload(Staff)
    \/ Quiet /\ \E caller \in Staff, m \in Members :
                    ~has_winner(m) /\ claims = {} /\ winner_cmd(caller, m, MaxPicks)
    \/ RoleRemoved({TRUE}) \/ RoleAdded({TRUE})
    \/ Quiet /\ nextThread = 1 /\ Newshow(Staff, Confirms)
    \/ ThreadCreated
    \/ Quiet /\ Assign(Staff)
    \/ AssignListingDeleted
    \/ AssignRoleRemoved({TRUE}) \/ AssignRoleAdded({TRUE})
    \/ Quiet /\ Panic(Staff \cup SecondStaff, Confirms)
    \/ Quiet /\ Wipe(SecondStaff, Confirms)
    \/ Restart

SpecRestart == Init /\ [][NextRestart]_vars

(***************************************************************************)
(* A show that is ended while reactions are being handled, and the         *)
(* commands staff can send after the end: uploads, a grant, panic.         *)
(***************************************************************************)
NextEndshow ==
    \/ Quiet /\ Upload(Staff)
    \/ Quiet /\ \E caller \in Staff, m \in Members :
                    ~has_winner(m) /\ claims = {} /\ winner_cmd(caller, m, 1)
    \/ RoleRemoved({TRUE}) \/ RoleAdded({TRUE})
    \/ Quiet /\ nextThread = 1 /\ Newshow(Staff, {"CONFIRM"})
    \/ ThreadCreated
    \/ ReactionTo(ItemCodes, {FALSE})
    \/ MemberFetched({TRUE})
    \/ ReactionPosted
    \/ Endshow(Staff, Confirms)
    \/ ChannelsLocked
    \/ Quiet /\ Panic(Staff, {"CONFIRM"})

SpecEndshow == Init /\ [][NextEndshow]_vars

(***************************************************************************)
(* Unassign commands sent while an unassign is still being handled: one    *)
(* grant of MaxPicks, claims by assign one at a time, and up to MaxTasks   *)
(* unassign handlers interleaving at their awaits.                         *)
(***************************************************************************)
NextUnassignTwice ==
    \/ Quiet /\ claims = {} /\ Upload(Staff)
    \/ Quiet /\ \E caller \in Staff, m \in Members :
                    ~has_winner(m) /\ claims = {} /\ winner_cmd(caller, m, MaxPicks)
    \/ RoleRemoved({TRUE}) \/ RoleAdded({TRUE})
    \/ Quiet /\ nextThread = 1 /\ Newshow(Staff, {"CONFIRM"})
    \/ ThreadCreated
    \/ Quiet /\ Assign(Staff)
    \/ AssignListingDeleted \/ AssignRoleRemoved({TRUE}) \/ AssignRoleAdded({TRUE})
    \/ (\A t \in Running : t.op = "unassign" /\ t.pc = "delete_post") /\ Unassign(Staff)
    \/ UnassignPostDeleted
    \/ Reposted

SpecUnassignTwice == Init /\ [][NextUnassignTwice]_vars

(***************************************************************************)
(* Rebuilds of the claim log of a show whose claimants are several guests  *)
(* and a member: one grant each, claims by guestclaim and assign, the      *)
(* commands one after the other.                                           *)
(***************************************************************************)
NextSortGuests ==
    \/ Quiet /\ claims = {} /\ UploadOf(Staff, SwapItemCodes)
    \/ Quiet /\ \E caller \in Staff, m \in Members :
                    ~has_winner(m) /\ claims = {} /\ winner_cmd(caller, m, 1)
    \/ RoleRemoved({TRUE}) \/ RoleAdded({TRUE})
    \/ Quiet /\ \E caller \in Staff, g \in SortGuests :
                    ~has_guest(g) /\ claims = {} /\ guestwinner_cmd(caller, g, MaxPicks)
    \/ Quiet /\ nextThread = 1 /\ Newshow(Staff, {"CONFIRM"})
    \/ ThreadCreated
    \/ Quiet /\ AssignOf(Staff, SwapItemCodes)
    \/ AssignListingDeleted \/ AssignRoleRemoved({TRUE})
    \/ Quiet /\ \E caller \in Staff, g \in SortGuests, c \in SwapItemCodes :
                    guestclaim_cmd(caller, g, c)
    \/ GuestListingDeleted
    \/ Quiet /\ Sort(Staff)
    \/ SortDeleted \/ SortRebuilt

SpecSortGuests == Init /\ [][NextSortGuests]_vars

(***************************************************************************)
(* Consecutive rebuilds: the ledger of a show is filled (uploads, grants,  *)
(* claims by assign and guestclaim) before the first rebuild, and from the *)
(* first rebuild on nothing but rebuilds run.                              *)
(***************************************************************************)
NextSortAgain ==
    \/ Quiet /\ claims = {} /\ UploadOf(Staff, SwapItemCodes)
    \/ Quiet /\ \E caller \in Staff, m \in Members :
                    ~has_winner(m) /\ claims = {} /\ winner_cmd(caller, m, MaxPicks)
    \/ Quiet /\ \E caller \in Staff, g \in Guests :
                    ~has_guest(g) /\ claims = {} /\ guestwinner_cmd(caller, g, MaxPicks)
    \/ RoleRemoved({TRUE}) \/ RoleAdded({TRUE})
    \/ Quiet /\ nextThread = 1 /\ Newshow(Staff, {"CONFIRM"})
    \/ ThreadCreated
    \/ Quiet /\ thread_posts = <<>> /\ AssignOf(Staff, SwapItemCodes)
    \/ AssignListingDeleted \/ AssignRoleRemoved({TRUE}) \/ AssignRoleAdded({TRUE})
    \/ Quiet /\ thread_posts = <<>> /\ GuestClaim(Staff)
    \/ GuestListingDeleted
    \/ Quiet /\ Sort(Staff)
    \/ SortDeleted \/ SortRebuilt

SpecSortAgain == Init /\ [][NextSortAgain]_vars

(***************************************************************************)
(* Random assignment: random and randomguest commands with every category  *)
(* argument, sent while earlier ones are still being handled, before and   *)
(* during a show, for a member and a guest with and without picks.         *)
(***************************************************************************)
NextRandom ==
    \/ Quiet /\ claims = {} /\ UploadOf(Staff, SwapItemCodes)
    \/ Quiet /\ \E caller \in Staff, m \in Members :
                    ~has_winner(m) /\ claims = {} /\ winner_cmd(caller, m, MaxPicks)
    \/ Quiet /\ \E caller \in Staff, g \in Guests :
                    ~has_guest(g) /\ claims = {} /\ guestwinner_cmd(caller, g, 1)
    \/ RoleRemoved({TRUE}) \/ RoleAdded({TRUE})
    \/ Quiet /\ nextThread = 1 /\ Newshow(Staff, {"CONFIRM"})
    \/ ThreadCreated
    \/ RandomOf(Staff, Categories \cup {BadCategory})
    \/ ForceListingDeleted
    \/ RandomGuestOf(Staff, Categories \cup {BadCategory})
    \/ GuestListingDeleted

SpecRandom == Init /\ [][NextRandom]_vars

(***************************************************************************)
(* The file watcher alone: files dropped into the two watched directories  *)
(* in any order, the bot idle.                                             *)
(***************************************************************************)
NextMatcher == FileCreated

SpecMatcher == Init /\ [][NextMatcher]_vars

(***************************************************************************)
(* Items of either category with small and large numbers in their file     *)
(* names: up to two of them uploaded, then claimed, unassigned and swapped *)
(* by the commands that take an item code, one command after the other.    *)
(***************************************************************************)
NextCodes ==
    \/ Quiet /\ claims = {} /\ Cardinality(DOMAIN items) < 2 /\ UploadOf(Staff, FileCodes)
    \/ Quiet /\ \E caller \in Staff, m \in Members :
                    ~has_winner(m) /\ claims = {} /\ winner_cmd(caller, m, MaxPicks)
    \/ Quiet /\ \E caller \in Staff, g \in Guests :
                    ~has_guest(g) /\ claims = {} /\ guestwinner_cmd(caller, g, 1)
    \/ RoleRemoved({TRUE}) \/ RoleAdded({TRUE})
    \/ Quiet /\ nextThread = 1 /\ Newshow(Staff, {"CONFIRM"})
    \/ ThreadCreated
    \/ Quiet /\ AssignOf(Staff, FileCodes)
    \/ AssignListingDeleted \/ AssignRoleRemoved({TRUE}) \/ AssignRoleAdded({TRUE})
    \/ Quiet /\ \E caller \in Staff, g \in Guests, c \in FileCodes : guestclaim_cmd(caller, g, c)
    \/ GuestListingDeleted
    \/ Quiet /\ UnassignOf(Staff, FileCodes)
    \/ UnassignPostDeleted
    \/ Reposted
    \/ Quiet /\ SwapOf(Staff, FileCodes)
    \/ SwapReposted
    \/ ForceListingDeleted

SpecCodes == Init /\ [][NextCodes]_vars

(***************************************************************************)
(* C2: the committed remaining-pick count of every registered and every    *)
(* guest ledger entry is never negative.                                   *)
(***************************************************************************)
PicksNeverNegative ==
    /\ \A m \in DOMAIN winners : winners[m] >= 0
    /\ \A g \in DOMAIN guest_winners : guest_winners[g] >= 0

\* a member and a guest each spent their last pick on a claim that is live
PicksSpentToZero ==
    /\ \E m \in DOMAIN winners :
          winners[m] = 0 /\ \E c \in claims : c.user_id = m
    /\ \E g \in DOMAIN guest_winners :
          guest_winners[g] = 0 /\ \E c \in claims : c.user_id = NULL /\ c.user_tag = g

(***************************************************************************)
(* C1: in every reachable state there is at most one live claim for every  *)
(* session (thread id) and every item code.                                *)
(***************************************************************************)
AtMostOneLiveClaim ==
    \A c, d \in claims :
        (c.thread_id = d.thread_id /\ c.item_code = d.item_code) => c = d

(***************************************************************************)
(* The guarded commands as a caller invokes them: action names the         *)
(* command, wipe being guarded only once it is past its active-show check. *)
(***************************************************************************)
GuardedCommand(a, action, cf) ==
    \/ action = "panic" /\ panic_cmd(a, cf)
    \/ action = "wipe" /\ get_active_thread_id = 0 /\ wipe_cmd(a, cf)
    \/ action = "newshow" /\ newshow_cmd(a, cf)
    \/ action = "endshow" /\ endshow_cmd(a, cf)

(***************************************************************************)
(* C3: for each guarded command and each actor, an invocation with no      *)
(* unexpired token (none yet, or one created 60 or more seconds ago)       *)
(* returns "needs confirmation" and mutates nothing, whatever argument is  *)
(* supplied; an invocation with an unexpired token performs the mutation.  *)
(***************************************************************************)
ConfirmationGate ==
    [][\A a \in Staff, action \in GuardedActions, cf \in Confirms :
          GuardedCommand(a, action, cf) =>
              IF ConfirmValid(a, action)
              THEN last' # Obs(action, "needs_confirm")
              ELSE /\ last' = Obs(action, "needs_confirm")
                   /\ UNCHANGED <<ledger, settings, discord, tasks>>]_vars

(***************************************************************************)
(* C4: tokens are one-shot: whenever a guarded command proceeds for        *)
(* (actor, action), no unexpired token for (actor, action) exists          *)
(* afterwards.                                                             *)
(***************************************************************************)
TokenOneShot ==
    [][\A a \in Staff, action \in GuardedActions, cf \in Confirms :
          (GuardedCommand(a, action, cf) /\ last' # Obs(action, "needs_confirm"))
              => ~ConfirmValid(a, action)']_vars

(***************************************************************************)
(* C5: while a show is active wipe is refused and leaves items, picks,     *)
(* guest picks, claims, settings and confirmation tokens unchanged; with   *)
(* no active show a staff caller's wipe goes to the confirmation gate.     *)
(***************************************************************************)
WipeRefusedWhileOpen ==
    [][\A a \in Callers, cf \in Confirms :
          (last'.op = "wipe" /\ wipe_cmd(a, cf)) =>
              IF get_active_thread_id # 0
              THEN /\ last' = Obs("wipe", "rejected")
                   /\ UNCHANGED <<items, winners, guest_winners, claims, settings, pending>>
              ELSE is_staff(a) =>
                       last' \in {Obs("wipe", "needs_confirm"), Obs("wipe", "done")}]_vars

\* a staff wipe was refused during a show whose ledger holds items
WipeRefusedDuringShow ==
    /\ last = Obs("wipe", "rejected")
    /\ get_active_thread_id # 0
    /\ items # Empty

(***************************************************************************)
(* C6: newshow is never carried out while a show is active: invoked with   *)
(* the session pointer set it leaves the ledger and the settings (the      *)
(* pointer among them) unchanged.                                          *)
(***************************************************************************)
NewshowOnlyWhenClosed ==
    [][\A a \in Callers, cf \in Confirms :
          (get_active_thread_id # 0 /\ newshow_cmd(a, cf))
              => UNCHANGED <<ledger, settings>>]_vars

(***************************************************************************)
(* A step of the reaction handler: its start, or the return of one of its  *)
(* awaits.                                                                 *)
(***************************************************************************)
ReactionStep ==
    \/ \E u \in Members, msg \in MessageIds, e \in BOOLEAN, cached \in BOOLEAN :
           on_raw_reaction_add(u, msg, e, cached)
    \/ \E t \in Running, ok \in BOOLEAN :
           /\ t.op = "reaction"
           /\ \/ react_fetch_member_done(t, ok)
              \/ smwr_remove_done(t, ok)
              \/ smwr_add_done(t, ok)

(***************************************************************************)
(* C7: in a state where panic is on, no step of the reaction handler       *)
(* inserts a claim or decrements a pick, events already in flight          *)
(* included.                                                               *)
(***************************************************************************)
PanicRejectsReactions ==
    [][(panic_enabled /\ ReactionStep) => (claims' = claims /\ winners' = winners)]_vars

(***************************************************************************)
(* C8: panic and unpanic leave the session pointer, every non-panic        *)
(* setting, the items, the claims and both pick ledgers unchanged, and a   *)
(* staff caller can raise (past the gate) and lower the flag whether or    *)
(* not a show is active.                                                   *)
(***************************************************************************)
PanicKeys == {"panic_mode", "panic_actor", "panic_at"}

PanicFrame ==
    /\ UNCHANGED <<items, winners, guest_winners, claims>>
    /\ get_active_thread_id' = get_active_thread_id
    /\ \A k \in (DOMAIN settings \cup DOMAIN settings') \ PanicKeys :
           /\ k \in DOMAIN settings
           /\ k \in DOMAIN settings'
           /\ settings'[k] = settings[k]

PanicTouchesOnlyPanic ==
    [][\A a \in Callers :
          /\ (last'.op = "unpanic" /\ unpanic_cmd(a)) =>
                 /\ PanicFrame
                 /\ is_staff(a) => ~panic_enabled'
          /\ last'.op = "panic" =>
                 \A cf \in Confirms :
                     panic_cmd(a, cf) =>
                         /\ PanicFrame
                         /\ (is_staff(a) /\ (cf = "CONFIRM" \/ ConfirmValid(a, "panic")))
                                => panic_enabled']_vars

\* panic was raised during a show whose ledger holds items
PanicRaisedDuringShow ==
    /\ last = Obs("panic", "done")
    /\ panic_enabled
    /\ get_active_thread_id # 0
    /\ items # Empty

(***************************************************************************)
(* C9: once panic is enabled it stays enabled until an unpanic: newshow,   *)
(* endshow and wipe never change the flag.                                 *)
(***************************************************************************)
PanicOnlyLoweredByUnpanic ==
    [][(panic_enabled /\ ~(\E a \in Callers : unpanic_cmd(a))) => panic_enabled']_vars

(***************************************************************************)
(* C10: every claim is inserted with the session pointer of the moment of  *)
(* its insertion as its thread id; none is inserted while the pointer is   *)
(* cleared.                                                                *)
(***************************************************************************)
ClaimsCarryActiveSession ==
    [][\A c \in claims' \ claims :
          get_active_thread_id # 0 /\ c.thread_id = get_active_thread_id]_vars

(***************************************************************************)
(* The step with which the swap handler t finishes: t leaves the tasks and *)
(* no later stage of the same swap takes its place.                        *)
(***************************************************************************)
SwapFinished(t) ==
    /\ t.op = "swap"
    /\ CopiesIn(t, tasks') < CopiesIn(t, tasks)
    /\ \A u \in BagToSet(tasks') :
           (u.op = "swap" /\ u.user = t.user /\ u.item = t.item /\ u.item2 = t.item2)
               => CopiesIn(u, tasks') <= CopiesIn(u, tasks)

(***************************************************************************)
(* C11: no step of a swap changes the pick ledger, and when the swap of    *)
(* member t.user from t.item2 (old) to t.item (new) has finished, old has  *)
(* no live claim and new has exactly one live claim, owned by the member.  *)
(***************************************************************************)
SwapMovesTheClaim ==
    [][/\ \A t \in BagToSet(tasks) \cup BagToSet(tasks') :
              (t.op = "swap" /\ CopiesIn(t, tasks') # CopiesIn(t, tasks))
                  => winners' = winners
       /\ \A t \in Running :
              SwapFinished(t) =>
                  LET old == {x \in claims' : x.thread_id = t.tid /\ x.item_code = t.item2}
                      new == {x \in claims' : x.thread_id = t.tid /\ x.item_code = t.item}
                  IN  /\ old = {}
                      /\ Cardinality(new) = 1
                      /\ \A x \in new : x.user_id = t.user]_vars

(***************************************************************************)
(* The remaining picks of a member (none without a winners row) and the    *)
(* live claims the member owns.                                            *)
(***************************************************************************)
LiveClaimsOf(m) == {c \in claims : c.user_id = m}

HeaderEntries(posts) ==
    {<<posts[i].who, posts[i].n>> : i \in {j \in DOMAIN posts : posts[j].kind = "header"}}

Announced(posts) ==
    {<<posts[i].who, posts[i].item>> : i \in {j \in DOMAIN posts : posts[j].kind = "claim"}}

Announcements(posts) ==
    [k \in Announced(posts) |->
        Cardinality({i \in DOMAIN posts :
                        posts[i].kind = "claim" /\ <<posts[i].who, posts[i].item>> = k})]

\* the step in which a running sort_cmd returns
SortReturns(t) ==
    /\ t.op = "sort"
    /\ t \in BagToSet(tasks)
    /\ \A u \in BagToSet(tasks') : u.op # "sort"

(***************************************************************************)
(* C13: a rebuild run right after a rebuild, with no claim, grant or       *)
(* unassign in between, leaves the claims thread with the same set of      *)
(* claimant entries, the same count in each, and the same claim            *)
(* announcements as the first one left.                                    *)
(***************************************************************************)
SortIdempotent ==
    [][\A t \in Running :
           SortReturns(t) =>
               LET once == thread_posts'
                   twice == SortedThread(once, claims', winners', guest_winners', t.tid)
               IN  /\ HeaderEntries(twice) = HeaderEntries(once)
                   /\ Announcements(twice) = Announcements(once)]_vars

\* two rebuilds of a show with a live claim happened, the second on the
\* ledger the first one read
SortedTwice ==
    /\ Quiet
    /\ Rebuilds(thread_posts) = 2
    /\ \E c \in claims : c.thread_id = get_active_thread_id
    /\ \E i, j \in DOMAIN thread_posts :
           i < j /\ thread_posts[i].kind = "header" /\ thread_posts[j] = thread_posts[i]
    /\ Announced(thread_posts) # {}

\* the messages of the last rebuild: from its banner on
EmittedLog(posts) ==
    LET b == CHOOSE i \in DOMAIN posts :
                 posts[i].kind = "banner" /\ \A j \in DOMAIN posts : j > i => posts[j].kind # "banner"
    IN  SubSeq(posts, b, Len(posts))

(***************************************************************************)
(* C14: when a rebuild of a session with live claims returns, the log it   *)
(* emitted has exactly one header per distinct claimant, showing that      *)
(* claimant's number of live claims, and exactly one announcement per live *)
(* claim: none missing, none twice, none for anything else.                *)
(***************************************************************************)
SortEmitsTheLedger ==
    [][\A t \in Running :
           (SortReturns(t) /\ \E c \in claims' : c.thread_id = t.tid) =>
               LET log == EmittedLog(thread_posts')
                   live == {c \in claims' : c.thread_id = t.tid}
                   headers == {i \in DOMAIN log : log[i].kind = "header"}
               IN  /\ \A c \in live :
                          /\ Cardinality({i \in headers : log[i].who = TagRank(c)}) = 1
                          /\ \A i \in headers :
                                 log[i].who = TagRank(c) =>
                                     log[i].n = Cardinality({d \in live : TagRank(d) = TagRank(c)})
                          /\ <<TagRank(c), c.item_code>> \in Announced(log)
                          /\ Announcements(log)[<<TagRank(c), c.item_code>>] = 1
                   /\ \A i \in headers : \E c \in live : log[i].who = TagRank(c)
                   /\ \A k \in Announced(log) :
                          \E c \in live : k = <<TagRank(c), c.item_code>>]_vars

\* Is v among the messages of posts
Posted(v, posts) == \E i \in DOMAIN posts : posts[i] = v

(***************************************************************************)
(* C15: when a confirmed endshow clears the session pointer of a session   *)
(* with live claims, the claims thread holds the log of a rebuild of that  *)
(* session's ledger: the header and the announcements a rebuild emits from *)
(* the claims and picks of that moment.                                    *)
(***************************************************************************)
EndshowRebuildsFirst ==
    [][\A t \in Running :
           (/\ t.op = "endshow" /\ t.pc = "lock"
            /\ get_active_thread_id # 0
            /\ "active_claims_thread_id" \notin DOMAIN settings'
            /\ \E c \in claims : c.thread_id = get_active_thread_id) =>
               LET rows == get_claims_for_thread(claims, get_active_thread_id)
                   log == sort_rebuild(rows, winners)
               IN  \A i \in DOMAIN log : Posted(log[i], thread_posts')]_vars

GuestRemaining(g) == IF has_guest(g) THEN guest_winners[g] ELSE 0

LiveGuestClaimsOf(g) == {c \in claims : c.user_id = NULL /\ c.user_tag = g}

(***************************************************************************)
(* C16: on every pick-consuming path the claim row and the decrement go    *)
(* together: whenever no handler is running (each has finished or failed,  *)
(* a failed role sync included), a participant granted r picks has         *)
(* remaining + live claims = r; no claim is recorded without its           *)
(* decrement and no decrement without its claim.                           *)
(***************************************************************************)
ClaimAndDecrementTogether ==
    Quiet =>
        /\ \A m \in Members :
               Remaining(m) + Cardinality(LiveClaimsOf(m)) \in {0, MaxPicks}
        /\ \A g \in Guests :
               GuestRemaining(g) + Cardinality(LiveGuestClaimsOf(g)) \in {0, MaxPicks}

GrantRejected ==
    /\ \A caller \in Staff, m \in Members, a \in {-1, 0} :
           winner_cmd(caller, m, a) => UNCHANGED <<ledger, settings, pending, discord, tasks>>
    /\ \A caller \in Staff, g \in Guests, a \in {-1, 0} :
           guestwinner_cmd(caller, g, a) =>
               UNCHANGED <<ledger, settings, pending, discord, tasks>>

(***************************************************************************)
(* C18: a grant with amount > 0 adds to the remaining picks: the value it  *)
(* stores (and reports) is the remaining of that moment plus the amount,   *)
(* the amount alone when there is no entry; a grant with amount <= 0       *)
(* changes nothing; and with a claim of the same member in flight, the     *)
(* grant still adds its amount and the claim still takes its one pick.     *)
(* (Member grants of this scenario have amount 1.)                         *)
(***************************************************************************)
GrantIsAdditive ==
    [][/\ GrantRejected
       /\ \A caller \in Staff, g \in Guests, a \in 1..MaxPicks :
              guestwinner_cmd(caller, g, a) => guest_winners'[g] = GuestRemaining(g) + a
       /\ \A t \in Running :
              (t.op = "winner" /\ t.pc = "smwr_add" /\ CopiesIn(t, tasks') < CopiesIn(t, tasks)) =>
                  /\ winners'[t.user] = t.n
                  /\ winners'[t.user] = Remaining(t.user) + 1
       /\ \A u \in BagToSet(tasks') :
              (u.op = "reaction" /\ u.pc = "react_post"
               /\ CopiesIn(u, tasks') > CopiesIn(u, tasks)) =>
                  winners'[u.user] = Remaining(u.user) - 1]_vars

(***************************************************************************)
(* C19: when a confirmed newshow completes, the items, winners,            *)
(* guest_winners and claims tables are empty, the settings hold nothing    *)
(* but the session pointer, and the pointer is the id of the thread just   *)
(* created; a newshow that is rejected (caller not staff, or confirmation  *)
(* still needed) changes none of the five tables.                          *)
(***************************************************************************)
NewshowStartsClean ==
    [][/\ \A t \in Running :
              (t.op = "newshow" /\ t.pc = "create_thread"
               /\ CopiesIn(t, tasks') < CopiesIn(t, tasks)) =>
                  /\ items' = Empty
                  /\ winners' = Empty
                  /\ guest_winners' = Empty
                  /\ claims' = {}
                  /\ DOMAIN settings' = {"active_claims_thread_id"}
                  /\ settings'["active_claims_thread_id"] = nextThread
                  /\ nextThread' = nextThread + 1
                  /\ get_active_thread_id # nextThread
       /\ \A caller \in Callers, cf \in Confirms :
              (/\ ~is_staff(caller) \/ GateReturns(caller, "newshow", cf)
               /\ newshow_cmd(caller, cf)) =>
                  UNCHANGED <<items, winners, guest_winners, claims, settings>>]_vars

\* the second show has started: the claim made in the first one, the picks
\* and the panic flag are gone
SecondShowStarted ==
    /\ Quiet
    /\ last = Obs("newshow", "done")
    /\ nextThread = 3
    /\ nextClaimId > 1
    /\ claims = {} /\ winners = Empty /\ guest_winners = Empty /\ items = Empty
    /\ get_active_thread_id = 2

\* the checks of the protocol, in its order ("none" stands for all passed)
CheckOrder == <<"session", "emoji", "panic", "item", "entry", "unclaimed", "none">>

\* Does check f fail for this event in the current state
Fails(f, user_id, message_id, emoji_ok) ==
    CASE f = "session" -> get_active_thread_id = 0
      [] f = "emoji" -> ~emoji_ok
      [] f = "panic" -> panic_enabled
      [] f = "item" -> get_item_by_selection_message(message_id) = {}
      [] f = "entry" -> Remaining(user_id) <= 0
      [] f = "unclaimed" -> \E c \in get_item_by_selection_message(message_id) :
                                is_item_claimed(c, get_active_thread_id)
      [] f = "none" -> TRUE

\* the first check that fails
FirstFailing(user_id, message_id, emoji_ok) ==
    CheckOrder[CHOOSE i \in DOMAIN CheckOrder :
                   /\ Fails(CheckOrder[i], user_id, message_id, emoji_ok)
                   /\ \A j \in 1..(i - 1) : ~Fails(CheckOrder[j], user_id, message_id, emoji_ok)]

\* what the protocol has the handler do for each first failing check
OutcomeOf(f, user_id) ==
    CASE f \in {"session", "emoji", "item"} -> "ignored"
      [] f = "panic" -> "removed"
      [] f = "entry" -> IF has_winner(user_id) THEN "no_picks" ELSE "no_tag"
      [] f = "unclaimed" -> "claimed"
      [] f = "none" -> "accept"

(***************************************************************************)
(* C20: the reaction handler evaluates session open, emoji accepted, panic *)
(* off, item resolvable, entry with remaining > 0, item not claimed, in    *)
(* that order, and what it does with an event is what the first failing    *)
(* check calls for; a rejected event leaves the ledger, the settings and   *)
(* the running handlers as they were: it is dropped, not queued or         *)
(* retried.                                                                *)
(***************************************************************************)
ChecksInOrder ==
    [][\A u \in Members, e \in BOOLEAN,
          msg \in {ListingId(c) : c \in SwapItemCodes} \cup {OtherMessage} :
           LET first == FirstFailing(u, msg, e)
           IN  /\ reaction_checks(u, msg, e) = OutcomeOf(first, u)
               /\ on_raw_reaction_add(u, msg, e, TRUE) =>
                      IF first # "none"
                      THEN UNCHANGED <<ledger, settings, pending, discord, tasks>>
                      ELSE \E c \in claims' \ claims :
                               c.user_id = u /\ items[c.item_code] = msg]_vars

\* panic is on in an open show, a member without picks left holds a claimed
\* item whose listing is up again: both examples of the claim apply
PanicAndSpentPicks ==
    /\ Quiet
    /\ get_active_thread_id # 0
    /\ panic_enabled
    /\ \E m \in Members, c \in DOMAIN items :
           /\ has_winner(m) /\ winners[m] = 0
           /\ is_item_claimed(c, get_active_thread_id)
           /\ items[c] = ListingId(c)

\* Does the reaction event fail one of the checks of the handler, read off
\* the tables
RejectedAtCheck(u, msg, e) ==
    \/ "active_claims_thread_id" \notin DOMAIN settings
    \/ ~e
    \/ "panic_mode" \in DOMAIN settings /\ settings["panic_mode"] = "1"
    \/ \A c \in DOMAIN items : items[c] # msg
    \/ u \notin DOMAIN winners
    \/ winners[u] <= 0
    \/ \E c \in DOMAIN items, x \in claims :
           /\ items[c] = msg
           /\ x.item_code = c
           /\ x.thread_id = settings["active_claims_thread_id"]

(***************************************************************************)
(* C21: a reaction event rejected at any check (no session, signal not     *)
(* accepted, panic, untracked listing, no entry or zero picks, item        *)
(* already claimed) leaves items and their listing references, both pick   *)
(* ledgers, the claims, the session pointer and the panic flag unchanged,  *)
(* and starts no handler that could change them later.                     *)
(***************************************************************************)
RejectedReactionChangesNothing ==
    [][\A u \in Members, e \in BOOLEAN, cached \in BOOLEAN,
          msg \in {ListingId(c) : c \in SwapItemCodes} \cup {OtherMessage} :
           RejectedAtCheck(u, msg, e) =>
               /\ reaction_checks(u, msg, e) # "accept"
               /\ on_raw_reaction_add(u, msg, e, cached) =>
                      UNCHANGED <<items, winners, guest_winners, claims, nextClaimId,
                                  settings, tasks>>]_vars

\* an open show without panic where a member who spent the only pick on a
\* claim faces a listing that is still up: that reaction is turned down for
\* the picks, one to the claimed item's old listing as untracked
SpentMemberFacesListing ==
    /\ Quiet
    /\ get_active_thread_id # 0
    /\ ~panic_enabled
    /\ \E m \in Members, c, d \in DOMAIN items :
           /\ has_winner(m) /\ winners[m] = 0
           /\ is_item_claimed(c, get_active_thread_id) /\ items[c] = 0
           /\ ~is_item_claimed(d, get_active_thread_id) /\ items[d] = ListingId(d)
           /\ reaction_checks(m, ListingId(d), TRUE) = "no_picks"
           /\ reaction_checks(m, ListingId(c), TRUE) = "ignored"

(***************************************************************************)
(* C22: the claims of a session are totally ordered by id, in the order of *)
(* their insertion: a step inserts at most one claim, its id is larger     *)
(* than every id issued before (those of the live claims and those of the  *)
(* claims unassign, swap, wipe or newshow deleted, all of them below the   *)
(* AUTOINCREMENT sequence, which never goes back), and no two live claims  *)
(* share an id.                                                            *)
(***************************************************************************)
ClaimIdsFollowInsertion ==
    [][/\ Cardinality(claims' \ claims) <= 1
       /\ \A row \in claims' \ claims :
              /\ row.id >= nextClaimId
              /\ \A d \in claims : d.id < row.id
       /\ nextClaimId' >= nextClaimId
       /\ \A c \in claims' : c.id < nextClaimId'
       /\ \A c, d \in claims' : c.id = d.id => c = d]_vars

\* the claim with id 1 was deleted and the claim made after it carries id 2
IdNotReusedAfterDelete ==
    /\ Quiet
    /\ nextClaimId = 3
    /\ \E c \in claims : c.id = 2
    /\ \A c \in claims : c.id # 1

\* a command of the bot invoked by one of callers, whatever its arguments
CommandBy(callers) ==
    \/ Winner(callers) \/ GuestWinner(callers)
    \/ Assign(callers) \/ Random(callers) \/ RandomGuest(callers) \/ GuestClaim(callers)
    \/ Unassign(callers) \/ SwapOf(callers, ItemCodes \cup SwapItemCodes)
    \/ \E caller \in callers : sort_cmd(caller)
    \/ Newshow(callers, Confirms) \/ Endshow(callers, Confirms) \/ Wipe(callers, Confirms)
    \/ Panic(callers, Confirms) \/ Unpanic(callers)
    \/ Upload(callers) \/ Export(callers)

(***************************************************************************)
(* C23: winner, guestwinner, assign, random, randomguest, guestclaim,      *)
(* unassign, swap, sort, newshow, endshow, wipe, panic, unpanic, upload    *)
(* and export invoked by a caller without a staff role are rejected before *)
(* any mutation: the ledger, the settings (session pointer and panic flag),*)
(* the confirmation tokens, the roles and threads and the running handlers *)
(* are unchanged, whatever the arguments and the state.                    *)
(***************************************************************************)
StaffOnly ==
    [][CommandBy(NonStaff) => UNCHANGED <<ledger, settings, pending, discord, tasks>>]_vars

\* the newshow of a caller without a staff role was turned down during a
\* show with a live claim, a member holding picks, panic on and a token
\* pending
NonStaffNewshowRefused ==
    /\ last = Obs("newshow", "rejected")
    /\ get_active_thread_id # 0
    /\ claims # {}
    /\ winners # Empty
    /\ panic_enabled
    /\ pending # Empty

(***************************************************************************)
(* C24: pick conservation under any interleaving of the claim handlers:    *)
(* whenever no handler is running, a member or guest granted one pick has  *)
(* remaining + live claims = 1 (and 0 before the grant), so a claimant     *)
(* holding one pick never ends up with more than one claim.                *)
(***************************************************************************)
PicksConserved ==
    Quiet =>
        /\ \A m \in Members :
               /\ Cardinality(LiveClaimsOf(m)) <= 1
               /\ (has_winner(m) \/ LiveClaimsOf(m) # {}) =>
                      Remaining(m) + Cardinality(LiveClaimsOf(m)) = 1
        /\ \A g \in Guests :
               /\ Cardinality(LiveGuestClaimsOf(g)) <= 1
               /\ (has_guest(g) \/ LiveGuestClaimsOf(g) # {}) =>
                      GuestRemaining(g) + Cardinality(LiveGuestClaimsOf(g)) = 1

(***************************************************************************)
(* C25: once the handler that committed a claim has finished, the claimed  *)
(* item is unlisted: whenever no handler is running, every item with a     *)
(* live claim in the open session has listing reference 0, whichever path  *)
(* committed the claim (reaction, assign, random, guest claim, swap); the  *)
(* reference comes back only with the claim gone (unassign, swap away).    *)
(***************************************************************************)
ClaimedItemsAreUnlisted ==
    (Quiet /\ get_active_thread_id # 0) =>
        \A c \in DOMAIN items :
            is_item_claimed(c, get_active_thread_id) => items[c] = 0

\* the handlers of member m that are inside a role sync, and the counts
\* they are syncing to
SyncingTo(m) ==
    {t.n : t \in {u \in Running :
                     /\ u.user = m
                     /\ u.pc \in {"smwr_remove", "smwr_add", "assign_remove", "assign_add"}}}

(***************************************************************************)
(* C26: a change of a member's remaining from m > 0 to n > 0 replaces the  *)
(* Winner tier in one handoff: in every state, also while the role sync of *)
(* such a change is suspended in its awaits and also when revoking the old *)
(* tier was refused, a member whose ledger holds picks and whose sync in   *)
(* flight leads to picks holds exactly one Winner tier.                    *)
(***************************************************************************)
TierHandoffAtomic ==
    \A m \in Members :
        (Remaining(m) > 0 /\ \A n \in SyncingTo(m) : n > 0) =>
            Cardinality(roles[m]) = 1

(***************************************************************************)
(* C27: whenever no handler is running, the Winner tier of a member is a   *)
(* function of the ledger: the member holds exactly `Winner N` when the    *)
(* winners row exists with remaining = N > 0, and no Winner tier when the  *)
(* row is absent or at zero; after grants, claims, wipe and newshow alike. *)
(***************************************************************************)
TierFollowsLedger ==
    Quiet =>
        \A m \in Members :
            roles[m] = IF Remaining(m) > 0 THEN {Remaining(m)} ELSE {}

\* Is there a live claim of member m for item code in the open session,
\* read off the tables
OwnsLiveClaim(m, code) ==
    /\ "active_claims_thread_id" \in DOMAIN settings
    /\ code[1] \in Categories
    /\ \E c \in claims :
           /\ c.thread_id = settings["active_claims_thread_id"]
           /\ c.item_code = code
           /\ c.user_id = m

(***************************************************************************)
(* C28: unassign(member, item) takes effect only when the item's live      *)
(* claim in the open session belongs to that member: with no open session, *)
(* an argument that is no item code, an unclaimed item, or a claim of      *)
(* another member or of a guest, it is rejected and claims, picks, guest   *)
(* picks, roles, listing references and running handlers are unchanged;    *)
(* and the claim an unassign deletes is the named member's claim for the   *)
(* named item.                                                             *)
(***************************************************************************)
UnassignOnlyOwnClaim ==
    [][/\ \A caller \in Staff, m \in 1..(NumMembers + 1),
             code \in SwapItemCodes \cup {BadItemCode} :
              (~OwnsLiveClaim(m, code) /\ unassign_cmd(caller, m, code)) =>
                  UNCHANGED <<claims, winners, guest_winners, roles, items, tasks>>
       /\ \A t \in Running :
              (t.op = "unassign" /\ t.pc = "delete_post" /\ claims' # claims) =>
                  \A c \in claims \ claims' : c.user_id = t.user /\ c.item_code = t.item]_vars

\* a member's claim was unassigned (pick back, listing up again) and a
\* guest's claim is live: unassign of the guest's item in the member's name,
\* of the released item, and of an argument that is no item code are all
\* turned down here
UnassignTurnedDownHere ==
    /\ Quiet
    /\ get_active_thread_id # 0
    /\ nextClaimId = 3
    /\ \E m \in Members, c, d \in DOMAIN items :
           /\ Remaining(m) = MaxPicks /\ LiveClaimsOf(m) = {}
           /\ \E x \in claims : x.user_id = NULL /\ x.item_code = c
           /\ ~is_item_claimed(d, get_active_thread_id) /\ items[d] = ListingId(d)
           /\ ~OwnsLiveClaim(m, c) /\ ~OwnsLiveClaim(m, d) /\ ~OwnsLiveClaim(m, BadItemCode)

\* the conditions of a swap of member m from old to new, read off the tables
SwapAllowed(m, old, new) ==
    /\ old[1] = new[1]
    /\ OwnsLiveClaim(m, old)
    /\ new \in DOMAIN items
    /\ ~\E c \in claims :
            c.thread_id = settings["active_claims_thread_id"] /\ c.item_code = new

(***************************************************************************)
(* C29: swap(member, old, new) is rejected with no change of claims,       *)
(* picks, guest picks, roles, listing references or running handlers       *)
(* unless old and new have the same category, old's live claim in the open *)
(* session belongs to the member, new has no live claim there and new is a *)
(* known item; swap(member, x, x) is always rejected.                      *)
(***************************************************************************)
SwapOnlyWhenAllowed ==
    [][\A caller \in Staff, m \in 1..(NumMembers + 1),
          old \in SwapItemCodes \cup ItemCodes, new \in SwapItemCodes \cup ItemCodes :
           (swap_cmd(caller, m, old, new) /\ (old = new \/ ~SwapAllowed(m, old, new))) =>
               UNCHANGED <<claims, winners, guest_winners, roles, items, tasks>>]_vars

\* a swap moved the member's claim to another item and the old item is
\* listed again: swapping the new item for itself, swapping the released
\* item, and swapping across categories are all turned down here
SwapTurnedDownHere ==
    /\ Quiet
    /\ get_active_thread_id # 0
    /\ nextClaimId = 3
    /\ \E m \in Members, old, new \in DOMAIN items :
           /\ old # new
           /\ LiveClaimsOf(m) = {ClaimRow(2, get_active_thread_id, m, MemberTag(m), new)}
           /\ items[old] = ListingId(old) /\ items[new] = 0
           /\ Remaining(m) = MaxPicks - 1
           /\ ~SwapAllowed(m, new, new)
           /\ ~SwapAllowed(m, old, new)
           /\ ~SwapAllowed(m, new, <<"S", new[2]>>)
           /\ SwapAllowed(m, new, old)

(***************************************************************************)
(* C30: confirmation tokens are scoped to (actor, action): while actor a   *)
(* holds an unexpired token for action x, an invocation of action y by     *)
(* actor b, (b, y) other than (a, x), with no unexpired token of its own   *)
(* returns "needs confirmation" and mutates nothing, and a's token for x   *)
(* is as it was.                                                           *)
(***************************************************************************)
TokensScopedToActorAndAction ==
    [][\A a, b \in Staff \cup SecondStaff, x, y \in GuardedActions, cf \in Confirms :
          (/\ <<a, x>> # <<b, y>>
           /\ ConfirmValid(a, x)
           /\ ~ConfirmValid(b, y)
           /\ GuardedCommand(b, y, cf)) =>
              /\ last' = Obs(y, "needs_confirm")
              /\ UNCHANGED <<ledger, settings, discord, tasks>>
              /\ <<a, x>> \in DOMAIN pending'
              /\ pending'[<<a, x>>] = pending[<<a, x>>]]_vars

(***************************************************************************)
(* C31: a process restart leaves no confirmation token and leaves the      *)
(* session pointer, the panic flag and its metadata, the items, both pick  *)
(* ledgers and the claims as they were; and the first guarded command      *)
(* invoked after it, by any actor and with any argument, returns "needs    *)
(* confirmation" and mutates nothing.                                      *)
(***************************************************************************)
PersistedKeys == {"active_claims_thread_id", "panic_mode", "panic_actor", "panic_at"}

SameSetting(key) ==
    /\ (key \in DOMAIN settings') = (key \in DOMAIN settings)
    /\ key \in DOMAIN settings => settings'[key] = settings[key]

RestartClearsTokensOnly ==
    [][/\ (\E help_sent \in BOOLEAN : process_start(help_sent)) =>
              /\ pending' = Empty
              /\ \A key \in PersistedKeys : SameSetting(key)
              /\ UNCHANGED <<items, winners, guest_winners, claims>>
       /\ last = Obs("restart", "done") =>
              \A a \in Staff \cup SecondStaff, action \in GuardedActions, cf \in Confirms :
                  GuardedCommand(a, action, cf) =>
                      /\ last' = Obs(action, "needs_confirm")
                      /\ UNCHANGED <<ledger, settings, discord, tasks>>]_vars

(***************************************************************************)
(* C32: the step that completes a confirmed endshow clears the session     *)
(* pointer and changes neither the items, the two pick ledgers, the claims *)
(* nor the panic flag; and from then on, as long as no wipe and no newshow *)
(* is run, no step changes any of them.                                    *)
(***************************************************************************)
EndshowCompletes ==
    \E t \in Running : t.op = "endshow" /\ endshow_locked(t)

EndshowFreezesTheLedger ==
    [][/\ EndshowCompletes =>
              /\ get_active_thread_id' = 0
              /\ UNCHANGED <<items, winners, guest_winners, claims>>
              /\ SameSetting("panic_mode")
       /\ (last = Obs("endshow", "done") /\ last'.op \notin {"wipe", "newshow"}) =>
              /\ UNCHANGED <<items, winners, guest_winners, claims>>
              /\ SameSetting("panic_mode")]_vars

(***************************************************************************)
(* C33: however the unassign commands aimed at one live claim interleave,  *)
(* the claim is deleted and its claimant gets one pick back in total:      *)
(* whenever no handler is running, a member granted MaxPicks has remaining *)
(* + live claims = MaxPicks, an item has at most one live claim, and every *)
(* item without a live claim holds its one listing reference.              *)
(***************************************************************************)
UnassignRefundsOnce ==
    Quiet =>
        /\ \A m \in Members :
               (has_winner(m) \/ LiveClaimsOf(m) # {}) =>
                   Remaining(m) + Cardinality(LiveClaimsOf(m)) = MaxPicks
        /\ \A c \in DOMAIN items :
               /\ Cardinality({r \in claims : r.item_code = c}) <= 1
               /\ (get_active_thread_id # 0 /\ ~is_item_claimed(c, get_active_thread_id)) =>
                      items[c] = ListingId(c)

(***************************************************************************)
(* C34: in the rebuilt claim log every claim announcement stands under the *)
(* header of its own claimant: two announcements under one header are of   *)
(* the same claimant, so the claims of two guests are never in one group   *)
(* and a guest's claims never stand under another guest's name.            *)
(***************************************************************************)
\* the header a post of the log stands under: the last one before it
HeaderOf(posts, i) ==
    CHOOSE h \in 0..i :
        /\ h # 0 => (h < i /\ posts[h].kind = "header")
        /\ \A k \in (h + 1)..(i - 1) : posts[k].kind # "header"

GroupsHoldOneClaimant ==
    \A i \in DOMAIN thread_posts :
        thread_posts[i].kind = "claim" =>
            /\ HeaderOf(thread_posts, i) # 0
            /\ thread_posts[HeaderOf(thread_posts, i)].who = thread_posts[i].who
            /\ \A j \in DOMAIN thread_posts :
                   (thread_posts[j].kind = "claim"
                    /\ HeaderOf(thread_posts, j) = HeaderOf(thread_posts, i)) =>
                       thread_posts[j].who = thread_posts[i].who

\* two guests hold claims in the open show and its log was rebuilt
TwoGuestsSorted ==
    /\ Quiet
    /\ \E c, d \in claims :
           /\ c.user_id = NULL /\ d.user_id = NULL /\ c.user_tag # d.user_tag
           /\ c.thread_id = get_active_thread_id /\ d.thread_id = get_active_thread_id
    /\ Rebuilds(thread_posts) >= 1
    /\ Cardinality({i \in DOMAIN thread_posts : thread_posts[i].kind = "header"}) = 1
    /\ \E i \in DOMAIN thread_posts : thread_posts[i].kind = "claim"

(***************************************************************************)
(* C35: after any number of rebuilds in a row on an unchanged ledger, the  *)
(* claims thread holds what one rebuild emits and nothing more: one        *)
(* banner, the headers and announcements of one rebuild, one set of        *)
(* picks-remaining lists.                                                  *)
(***************************************************************************)
LogHoldsOneRebuild ==
    (Quiet /\ thread_posts # <<>>) =>
        /\ Rebuilds(thread_posts) = 1
        /\ thread_posts = SortedThread(<<>>, claims, winners, guest_winners,
                                       get_active_thread_id)

(***************************************************************************)
(* C36: random and randomguest insert a claim only for an item of the      *)
(* requested category that has no live claim in the open show in the step  *)
(* that inserts it; and when the category is neither N nor S, no show is   *)
(* open, the claimant has no entry or no pick left, or no item of the      *)
(* category is without a claim, the command changes nothing.               *)
(***************************************************************************)
\* read off the tables: nothing of category cat can be assigned at random
NothingToDraw(cat) ==
    \/ cat \notin {"N", "S"}
    \/ "active_claims_thread_id" \notin DOMAIN settings
    \/ ~\E c \in DOMAIN items :
            /\ c[1] = cat
            /\ ~\E r \in claims : r.item_code = c
                                   /\ r.thread_id = settings["active_claims_thread_id"]

\* what a random command that is not refused does in its first step: a
\* claim of an unclaimed item of cat, or a handler on its way to one
DrawsFrom(cat) ==
    /\ \A r \in claims' \ claims :
           r.item_code[1] = cat /\ ~\E o \in claims : o.item_code = r.item_code
                                                      /\ o.thread_id = r.thread_id
    /\ \A u \in BagToSet(tasks') :
           (u.op \in {"random", "randomguest"} /\ CopiesIn(u, tasks') > CopiesIn(u, tasks)) =>
               u.item[1] = cat /\ u.item \in DOMAIN items

RandomClaimsOnlyUnclaimed ==
    [][/\ \A t \in Running :
              (/\ t.op \in {"random", "randomguest"} /\ t.pc = "force_delete"
               /\ (force_listing_deleted(t) \/ forceguest_listing_deleted(t))) =>
                  \A r \in claims' \ claims :
                      ~\E o \in claims : o.item_code = r.item_code /\ o.thread_id = r.thread_id
       /\ \A caller \in Staff, m \in Members, cat \in Categories \cup {BadCategory} :
              random_cmd(caller, m, cat) =>
                  IF NothingToDraw(cat) \/ m \notin DOMAIN winners \/ Remaining(m) <= 0
                  THEN UNCHANGED <<ledger, settings, discord, tasks>>
                  ELSE DrawsFrom(cat)
       /\ \A caller \in Staff, g \in Guests, cat \in Categories \cup {BadCategory} :
              randomguest_cmd(caller, g, cat) =>
                  IF NothingToDraw(cat) \/ g \notin DOMAIN guest_winners \/ GuestRemaining(g) <= 0
                  THEN UNCHANGED <<ledger, settings, discord, tasks>>
                  ELSE DrawsFrom(cat)]_vars

(***************************************************************************)
(* C37: add_file returns a pair exactly when, with the file of the call, a *)
(* raw and a watermarked file of the same derived name id have been taken  *)
(* since the last pair of that id; a returned pair leaves no buffer entry  *)
(* for the id and carries the nsfw flag of the first file taken for it;    *)
(* without a pair None is returned and the partial pair stays buffered;    *)
(* and a file lying in the directory of its name id is skipped, the buffer *)
(* unchanged.  A raw file is one named with a raw token (-raw, _raw), any  *)
(* other file is the watermarked side.                                     *)
(***************************************************************************)
NamedRaw(path) ==
    \/ endswith(lower(path.stem), <<"-", "r", "a", "w">>)
    \/ endswith(lower(path.stem), <<"_", "r", "a", "w">>)

PairsWhenBothSidesTaken ==
    [][\A source \in {"NSFW", "SFW"}, stem \in Stems, organized \in BOOLEAN :
          LET watch_root == IF source = "NSFW" THEN NSFW_WATCH_PATH ELSE SFW_WATCH_PATH
              id == _derive_name_id(Path(watch_root, <<>>, stem))
              path == Path(watch_root, IF organized THEN id ELSE <<>>, stem)
              taken == Taken(id) \o <<[path |-> path, nsfw |-> source = "NSFW"]>>
          IN  handle_path(path, source, watch_root) =>
                  IF organized
                  THEN returned' = <<>> /\ _buffer' = _buffer
                  ELSE /\ returned' # <<>> <=>
                              /\ \E i \in DOMAIN taken : NamedRaw(taken[i].path)
                              /\ \E i \in DOMAIN taken : ~NamedRaw(taken[i].path)
                       /\ returned' # <<>> =>
                              /\ id \notin DOMAIN _buffer'
                              /\ returned'[1].name_id = id
                              /\ returned'[1].nsfw = taken[1].nsfw
                       /\ returned' = <<>> => id \in DOMAIN _buffer']_vars

(***************************************************************************)
(* C38: item codes round-trip: the code make_item_code gives a stored item *)
(* of category N or S, whatever positive number the upload read off the    *)
(* file name, has 4 characters (the category letter and the number         *)
(* zero-padded to 3 digits), and parse_item_code accepts it and returns it *)
(* unchanged, so that guestclaim, unassign and swap can address the item.  *)
(***************************************************************************)
ItemCodesRoundTrip ==
    \A c \in DOMAIN items :
        LET code == make_item_code(c[1], c[2])
        IN  /\ Len(code) = 4
            /\ code[1] = c[1]
            /\ parse_item_code(code) = code

====
